---- MODULE Spec2Model ----
(***************************************************************************)
(* finanzpilot: the transaction import pipeline (Finanzguru parser, import *)
(* hash, TransactionService.import_from_file) over the transactions and     *)
(* categories tables.                                                       *)
(*                                                                          *)
(* Text is a sequence of one-character strings, so that strip, split and    *)
(* replace are computed as Python computes them.  A cell of the data frame  *)
(* pandas reads is either NaN (a blank cell) or a text.                     *)
(***************************************************************************)
EXTENDS Integers, Sequences, FiniteSets, TLC

(***************************************************************************)
(* Python text primitives                                                   *)
(***************************************************************************)

\* SQL NULL / Python None, where the value is otherwise a text, an id, a date or
\* a Decimal (one element that is no character, so it equals none of them)
NULL == <<"NULL">>

\* pandas' missing value: what a blank cell of the file reads as
NaN == <<"NaN">>

\* "No exception", where the value is otherwise an exception's name
NoError == "no error"

DigitSeq == <<"0", "1", "2", "3", "4", "5", "6", "7", "8", "9">>

IsDigit(c) == \E i \in 1..10 : DigitSeq[i] = c

DigitVal(c) == (CHOOSE i \in 1..10 : DigitSeq[i] = c) - 1

IsSpace(c) == c = " "

RECURSIVE LStrip(_)
LStrip(s) == IF s # <<>> /\ IsSpace(Head(s)) THEN LStrip(Tail(s)) ELSE s

RECURSIVE RStrip(_)
RStrip(s) ==
    IF s # <<>> /\ IsSpace(s[Len(s)]) THEN RStrip(SubSeq(s, 1, Len(s) - 1)) ELSE s

\* str.strip()
Strip(s) == RStrip(LStrip(s))

\* str.replace(c, "") for a one-character c
RECURSIVE Remove(_, _)
Remove(s, c) ==
    IF s = <<>> THEN <<>>
    ELSE IF Head(s) = c THEN Remove(Tail(s), c)
    ELSE <<Head(s)>> \o Remove(Tail(s), c)

\* str.replace(c, d) for one-character c and d
Replace(s, c, d) == [i \in 1..Len(s) |-> IF s[i] = c THEN d ELSE s[i]]

\* str.split(c): the parts between the occurrences of c (always at least one)
RECURSIVE Split(_, _)
Split(s, c) ==
    IF \A i \in 1..Len(s) : s[i] # c THEN <<s>>
    ELSE LET k == CHOOSE i \in 1..Len(s) : s[i] = c /\ \A j \in 1..(i - 1) : s[j] # c
         IN  <<SubSeq(s, 1, k - 1)>> \o Split(SubSeq(s, k + 1, Len(s)), c)

AllDigits(s) == s # <<>> /\ \A i \in 1..Len(s) : IsDigit(s[i])

RECURSIVE DigitsVal(_)
DigitsVal(s) ==
    IF s = <<>> THEN 0 ELSE 10 * DigitsVal(SubSeq(s, 1, Len(s) - 1)) + DigitVal(s[Len(s)])

RECURSIVE NatStr(_)
NatStr(n) ==
    IF n < 10 THEN <<DigitSeq[n + 1]>> ELSE NatStr(n \div 10) \o <<DigitSeq[(n % 10) + 1]>>

RECURSIVE Zeros(_)
Zeros(n) == IF n <= 0 THEN <<>> ELSE <<"0">> \o Zeros(n - 1)

\* "%0<w>d" of a natural number
ZeroPad(n, w) == Zeros(w - Len(NatStr(n))) \o NatStr(n)

\* int(text) once the surrounding whitespace is stripped: an optional sign, then
\* digit groups separated by single underscores.  [ok, val]
IntOfStripped(t) ==
    LET signed == t # <<>> /\ Head(t) \in {"-", "+"}
        body == IF signed THEN Tail(t) ELSE t
    IN  IF \E i \in 1..Len(Split(body, "_")) : ~AllDigits(Split(body, "_")[i])
        THEN [ok |-> FALSE, val |-> 0]
        ELSE [ok |-> TRUE,
              val |-> IF signed /\ Head(t) = "-"
                      THEN 0 - DigitsVal(Remove(body, "_"))
                      ELSE DigitsVal(Remove(body, "_"))]

\* int(text)
PyInt(s) == IntOfStripped(Strip(s))

(***************************************************************************)
(* datetime.date                                                            *)
(***************************************************************************)

IsLeap(y) == (y % 4 = 0 /\ y % 100 # 0) \/ y % 400 = 0

DaysInMonth(y, m) ==
    IF m = 2 THEN (IF IsLeap(y) THEN 29 ELSE 28)
    ELSE IF m \in {4, 6, 9, 11} THEN 30 ELSE 31

\* A date is the tuple <<year, month, day>>.
\* date(year, month, day) raises ValueError outside these ranges
ValidDate(y, m, d) ==
    /\ y >= 1 /\ y <= 9999
    /\ m >= 1 /\ m <= 12
    /\ d >= 1 /\ d <= DaysInMonth(y, m)

\* str(date): ISO form YYYY-MM-DD
DateStr(dt) == ZeroPad(dt[1], 4) \o <<"-">> \o ZeroPad(dt[2], 2) \o <<"-">> \o ZeroPad(dt[3], 2)

(***************************************************************************)
(* decimal.Decimal: the tuple <<sign, coefficient, exponent>>, the three    *)
(* parts the class keeps                                                    *)
(***************************************************************************)

\* The number of a sign and the parts of the unsigned text around its points:
\* digits with at most one point and at least one digit.  [ok, value]
DecimalOfParts(sign, parts) ==
    LET ip == parts[1]
        fp == IF Len(parts) = 2 THEN parts[2] ELSE <<>>
        valid == /\ Len(parts) <= 2
                 /\ \A i \in 1..Len(ip) : IsDigit(ip[i])
                 /\ \A i \in 1..Len(fp) : IsDigit(fp[i])
                 /\ Len(ip) + Len(fp) >= 1
    IN  IF ~valid THEN [ok |-> FALSE, value |-> NULL]
        ELSE [ok |-> TRUE, value |-> <<sign, DigitsVal(ip \o fp), 0 - Len(fp)>>]

\* Decimal(text) once whitespace is stripped and underscores are removed
DecimalOfStripped(t) ==
    IF t # <<>> /\ Head(t) \in {"-", "+"}
    THEN DecimalOfParts(IF Head(t) = "-" THEN 1 ELSE 0, Split(Tail(t), "."))
    ELSE DecimalOfParts(0, Split(t, "."))

\* Decimal(text) for plain notation: whitespace stripped, underscores removed,
\* an optional sign, digits with at most one point and at least one digit.
\* Anything else raises InvalidOperation.  [ok, value]
PyDecimal(s) == DecimalOfStripped(Remove(Strip(s), "_"))

\* Decimal.__str__ from the sign, the coefficient's digits and the exponent
DecimalStrOf(sign, digits, exp) ==
    LET leftdigits == exp + Len(digits)
        dotplace == IF exp <= 0 /\ leftdigits > -6 THEN leftdigits ELSE 1
        intpart == IF dotplace <= 0 THEN <<"0">>
                   ELSE IF dotplace >= Len(digits) THEN digits \o Zeros(dotplace - Len(digits))
                   ELSE SubSeq(digits, 1, dotplace)
        fracpart == IF dotplace <= 0 THEN <<".">> \o Zeros(0 - dotplace) \o digits
                    ELSE IF dotplace >= Len(digits) THEN <<>>
                    ELSE <<".">> \o SubSeq(digits, dotplace + 1, Len(digits))
        e == leftdigits - dotplace
        exppart == IF e = 0 THEN <<>>
                   ELSE <<"E">> \o (IF e < 0 THEN <<"-">> \o NatStr(0 - e) ELSE <<"+">> \o NatStr(e))
    IN  (IF sign = 1 THEN <<"-">> ELSE <<>>) \o intpart \o fracpart \o exppart

\* str(Decimal) for a finite number
DecimalStr(d) == DecimalStrOf(d[1], NatStr(d[2]), d[3])

\* 10 ** n
RECURSIVE Pow10(_)
Pow10(n) == IF n = 0 THEN 1 ELSE 10 * Pow10(n - 1)

\* The coefficient of a Decimal written with exponent e, e no greater than its own
DecScaled(d, e) == d[2] * Pow10(d[3] - e)

\* The smaller of two exponents
MinExp(e1, e2) == IF e1 <= e2 THEN e1 ELSE e2

\* Decimal.__eq__: the two numbers have the same value, however they are written
DecEqual(a, b) ==
    /\ DecScaled(a, MinExp(a[3], b[3])) = DecScaled(b, MinExp(a[3], b[3]))
    /\ a[1] = b[1] \/ a[2] = 0

(***************************************************************************)
(* finanzguru_parser.py: locale parsers and the import hash                 *)
(***************************************************************************)

\* pd.isna(value)
IsNa(v) == v = NaN \/ v = NULL

\* date(int(year), int(month), int(day)) of parse_german_date
DateOfInts(day, month, year) ==
    IF ~(day.ok /\ month.ok /\ year.ok) THEN [ok |-> FALSE, date |-> NULL]
    ELSE IF ~ValidDate(year.val, month.val, day.val) THEN [ok |-> FALSE, date |-> NULL]
    ELSE [ok |-> TRUE, date |-> <<year.val, month.val, day.val>>]

\* "day, month, year = ...split('.')": exactly three parts, each an int
DateOfParts(parts) ==
    IF Len(parts) # 3 THEN [ok |-> FALSE, date |-> NULL]
    ELSE DateOfInts(PyInt(parts[1]), PyInt(parts[2]), PyInt(parts[3]))

\* parse_german_date: [ok, date]; ok = FALSE is the ValueError
parse_german_date(date_str) ==
    IF IsNa(date_str) \/ date_str = <<>> THEN [ok |-> FALSE, date |-> NULL]
    ELSE DateOfParts(Split(Strip(date_str), "."))

\* The Decimal of the cleaned amount text, InvalidOperation turned into ValueError
AmountOfDecimal(d) ==
    IF ~d.ok THEN [ok |-> FALSE, amount |-> NULL] ELSE [ok |-> TRUE, amount |-> d.value]

\* parse_german_amount: [ok, amount]; ok = FALSE is the ValueError
parse_german_amount(amount_str) ==
    IF IsNa(amount_str) \/ amount_str = <<>> THEN [ok |-> FALSE, amount |-> NULL]
    ELSE AmountOfDecimal(PyDecimal(Replace(Remove(Strip(amount_str), "."), ",", ".")))

\* generate_import_hash: SHA-256 of "{date}|{amount}|{counterparty}|{description}".
\* The digest is modelled by its preimage: equal texts give equal digests and
\* different texts different ones.
generate_import_hash(transaction_date, amount, counterparty, description) ==
    DateStr(transaction_date) \o <<"|">> \o DecimalStr(amount) \o <<"|">> \o counterparty \o <<"|">> \o description


(***************************************************************************)
(* finanzguru_parser.py: the tabular file parser                            *)
(***************************************************************************)

\* FINANZGURU_COLUMN_MAPPING: source header name -> internal field name
FINANZGURU_COLUMN_MAPPING ==
    [ Buchungstag |-> "date",
      Referenzkonto |-> "account_iban",
      Betrag |-> "amount",
      Kontostand |-> "balance",
      Waehrung |-> "currency",
      Verwendungszweck |-> "description",
      Mandatsreferenz |-> "mandate_ref",
      Tags |-> "tags",
      Notiz |-> "notes" ]
    @@ ( "Name Referenzkonto" :> "account_name"
      @@ "Beguenstigter/Auftraggeber" :> "counterparty"
      @@ "IBAN Beguenstigter/Auftraggeber" :> "counterparty_iban"
      @@ "E-Ref" :> "e_ref"
      @@ "Glaeubiger-ID" :> "creditor_id"
      @@ "Analyse-Hauptkategorie" :> "category"
      @@ "Analyse-Unterkategorie" :> "subcategory"
      @@ "Analyse-Vertrag" :> "contract"
      @@ "Analyse-Vertragsturnus" :> "contract_frequency"
      @@ "Analyse-Vertrags-ID" :> "contract_id"
      @@ "Analyse-Umbuchung" :> "is_transfer"
      @@ "Analyse-Vom frei verfuegbaren Einkommen ausgeschlossen" :> "excluded_from_budget"
      @@ "Analyse-Umsatzart" :> "transaction_type"
      @@ "Analyse-Betrag" :> "analysis_amount"
      @@ "Analyse-Woche" :> "week"
      @@ "Analyse-Monat" :> "month"
      @@ "Analyse-Quartal" :> "quarter"
      @@ "Analyse-Jahr" :> "year" )

REQUIRED_COLUMNS == {"Buchungstag", "Betrag", "Beguenstigter/Auftraggeber", "Verwendungszweck"}

UpperSeq == <<"A", "B", "C", "D", "E", "F", "G", "H", "I", "J", "K", "L", "M", "N", "O", "P", "Q", "R", "S", "T", "U", "V", "W", "X", "Y", "Z">>

LowerSeq == <<"a", "b", "c", "d", "e", "f", "g", "h", "i", "j", "k", "l", "m", "n", "o", "p", "q", "r", "s", "t", "u", "v", "w", "x", "y", "z">>

\* str.lower()
Lower(s) ==
    [i \in 1..Len(s) |->
        IF \E k \in 1..26 : UpperSeq[k] = s[i]
        THEN LowerSeq[CHOOSE k \in 1..26 : UpperSeq[k] = s[i]]
        ELSE s[i]]

\* parse_german_boolean
parse_german_boolean(bool_str) ==
    IF IsNa(bool_str) \/ bool_str = <<>> THEN FALSE
    ELSE Lower(Strip(bool_str)) \in
            { <<"j", "a">>, <<"y", "e", "s">>, <<"t", "r", "u", "e">>, <<"1">>, <<"w", "a", "h", "r">> }

\* dict.get(key), None when the key is absent
Get(d, k) == IF k \in DOMAIN d THEN d[k] ELSE NULL

\* row.get(column): the cell, None when the frame has no such column
Cell(row, col) == Get(row, col)

\* The key a mapped optional column is stored under in the transaction dict
FieldKey(our_field) ==
    IF our_field \in {"is_transfer", "excluded_from_budget"} THEN "fg_" \o our_field
    ELSE IF our_field \in {"contract", "contract_frequency", "contract_id", "transaction_type",
                           "week", "month", "quarter", "year"} THEN "fg_" \o our_field
    ELSE our_field

\* The value stored for a mapped optional column whose cell is present and non-blank
FieldValue(our_field, value) ==
    IF our_field \in {"is_transfer", "excluded_from_budget"} THEN parse_german_boolean(value)
    ELSE Strip(value)

\* The mapped, non-required columns of the frame whose cell in this row is
\* neither NaN nor blank
CopiedColumns(columns, row) ==
    { c \in (columns \cap DOMAIN FINANZGURU_COLUMN_MAPPING) \ REQUIRED_COLUMNS :
        ~IsNa(Cell(row, c)) /\ Strip(Cell(row, c)) # <<>> }

\* The optional fields of the transaction dict: one per copied column
ExtraFields(row, copied) ==
    LET ColOf(k) == CHOOSE c \in copied : FieldKey(FINANZGURU_COLUMN_MAPPING[c]) = k
    IN  [ k \in { FieldKey(FINANZGURU_COLUMN_MAPPING[c]) : c \in copied } |->
            FieldValue(FINANZGURU_COLUMN_MAPPING[ColOf(k)], Cell(row, ColOf(k))) ]

\* A cell turned into text without the NaN test: str(nan)
CellTextStr(value) == IF IsNa(value) THEN <<"n", "a", "n">> ELSE Strip(value)

\* A counterparty or description cell as text: "" for NaN, else stripped
CellText(value) == IF IsNa(value) THEN <<>> ELSE Strip(value)

\* The transaction dict of a row whose date and amount parsed
RowDict(date, amount, counterparty, description, extra) ==
    [ date |-> date,
      amount |-> amount,
      counterparty |-> counterparty,
      description |-> description,
      import_hash |-> generate_import_hash(date, amount, counterparty, description),
      source |-> "finanzguru" ] @@ extra

\* The body of the row loop after its two parse calls
RowOfParsed(columns, row, d, a) ==
    IF ~d.ok \/ ~a.ok THEN [ok |-> FALSE, transaction |-> NULL]
    ELSE [ok |-> TRUE,
          transaction |-> RowDict(d.date, a.amount,
                                  CellText(Cell(row, "Beguenstigter/Auftraggeber")),
                                  CellText(Cell(row, "Verwendungszweck")),
                                  ExtraFields(row, CopiedColumns(columns, row)))]

\* One iteration of the row loop of parse_finanzguru_file: [ok, transaction];
\* ok = FALSE is the exception that the loop catches, and the row is dropped.
ParseRow(columns, row) ==
    RowOfParsed(columns, row, parse_german_date(Cell(row, "Buchungstag")),
                parse_german_amount(Cell(row, "Betrag")))

\* The rows collected so far, with the next row's result
Collect(r, rest) == (IF r.ok THEN <<r.transaction>> ELSE <<>>) \o rest

\* The row loop: the parsed rows of the frame in source order, failed rows dropped
RECURSIVE ParseRows(_, _)
ParseRows(columns, rows) ==
    IF rows = <<>> THEN <<>>
    ELSE Collect(ParseRow(columns, Head(rows)), ParseRows(columns, Tail(rows)))

XLSX == <<".", "x", "l", "s", "x">>

CSV == <<".", "c", "s", "v">>

\* File-level checks that ask only for the two core columns
OpenFrameCoreOnly(file) ==
    IF ~file.exists THEN [raised |-> "FileNotFoundError", missing |-> {}]
    ELSE IF Lower(file.suffix) \notin {XLSX, CSV}
    THEN [raised |-> "ValueError: Unsupported file format", missing |-> {}]
    ELSE IF {"Buchungstag", "Betrag"} \ file.columns # {}
    THEN [raised |-> "ValueError: Missing required columns",
          missing |-> {"Buchungstag", "Betrag"} \ file.columns]
    ELSE [raised |-> NoError, missing |-> {}]

\* The file-level checks of parse_finanzguru_file, before its row loop: the
\* file exists, its suffix is .xlsx or .csv, no required column is missing.
\* [raised, missing]: raised is NoError when the loop is entered, else the
\* exception; missing is the set the missing-columns ValueError names.
OpenFrame(file) ==
    IF ~file.exists THEN [raised |-> "FileNotFoundError", missing |-> {}]
    ELSE IF Lower(file.suffix) \notin {XLSX, CSV}
    THEN [raised |-> "ValueError: Unsupported file format", missing |-> {}]
    ELSE IF REQUIRED_COLUMNS \ file.columns # {}
    THEN [raised |-> "ValueError: Missing required columns",
          missing |-> REQUIRED_COLUMNS \ file.columns]
    ELSE [raised |-> NoError, missing |-> {}]

\* parse_finanzguru_file given the outcome of its file-level checks
ParseOpened(file, opened) ==
    IF opened.raised # NoError
    THEN [raised |-> opened.raised, missing |-> opened.missing, transactions |-> <<>>]
    ELSE [raised |-> NoError, missing |-> {}, transactions |-> ParseRows(file.columns, file.rows)]

\* parse_finanzguru_file: [raised, missing, transactions].  raised is NoError on
\* return, else the exception; missing is the set the ValueError names.
parse_finanzguru_file(file) == ParseOpened(file, OpenFrame(file))


(***************************************************************************)
(* The store: the transactions and categories tables                        *)
(***************************************************************************)

VARIABLES
    transactions,   \* the committed rows of table transactions
    categories,     \* the committed rows of table categories
    tx_seq,         \* how many transaction ids have been issued
    cat_seq,        \* how many category ids have been issued
    req,            \* per request slot: the import call in progress, or its outcome
    parser,         \* a stand-alone parse_finanzguru_file call, row by row
    receipts,       \* the committed rows of table receipts
    rc_seq,         \* how many receipt ids have been issued
    found,          \* a find_matching_transactions call: its arguments and outcome
    fn              \* a call of a locale parser or of the import hasher

vars == <<transactions, categories, tx_seq, cat_seq, req, parser, receipts, rc_seq, found, fn>>

\* Bounds of the model
MaxTxId == 3

MaxCatId == 2

Users == {"u1", "u2"}

Slots == {"s1", "s2"}

TxId(n) == <<"tx", n>>

CatId(n) == <<"cat", n>>

\* A table without the constraint uq_user_import_hash
UniqueViolationDropped(table, row) == FALSE

\* uq_user_import_hash: would inserting row break UNIQUE (user_id, import_hash)?
\* NULL hashes never conflict.
UniqueViolation(table, row) ==
    /\ row.import_hash # NULL
    /\ \E t \in table : t.user_id = row.user_id /\ t.import_hash = row.import_hash

\* The flush of db.commit(): the pending rows are inserted in the order they were
\* added; the first row the constraint rejects raises IntegrityError and the whole
\* transaction is rolled back.  [ok, table, rejected]
RECURSIVE Flush(_, _, _)
Flush(table, pending, n) ==
    IF pending = <<>> THEN [ok |-> TRUE, table |-> table]
    ELSE LET row == Head(pending)
         IN  IF UniqueViolation(table, row) THEN [ok |-> FALSE, table |-> table]
             ELSE Flush(table \cup {[id |-> TxId(n + 1)] @@ row}, Tail(pending), n + 1)

\* A commit that keeps the rows flushed before the rejected one
CommitKeepsFlushed(table, pending, n) == Flush(table, pending, n)

\* db.commit() of a session holding the pending rows: all of them or none
Commit(table, pending, n) ==
    LET f == Flush(table, pending, n)
    IN  IF f.ok THEN [ok |-> TRUE, table |-> f.table]
        ELSE [ok |-> FALSE, table |-> table]


(***************************************************************************)
(* transactions/service.py: TransactionService                              *)
(***************************************************************************)

\* Result.scalar_one_or_none(): the row, None for no row; more than one row
\* raises MultipleResultsFound.  [raised, found, row]
ScalarOneOrNone(rows) ==
    IF rows = {} THEN [raised |-> NoError, found |-> FALSE, row |-> NULL]
    ELSE IF Cardinality(rows) = 1
    THEN [raised |-> NoError, found |-> TRUE, row |-> CHOOSE r \in rows : TRUE]
    ELSE [raised |-> "MultipleResultsFound", found |-> FALSE, row |-> NULL]

\* TransactionService._map_categories: [raised, category_id, subcategory_id]
map_categories(cats, fg_category, fg_subcategory) ==
    LET none == [raised |-> NoError, category_id |-> NULL, subcategory_id |-> NULL]
    IN  IF fg_category = NULL \/ fg_category = <<>> THEN none
        ELSE LET top == ScalarOneOrNone({c \in cats : c.name_de = fg_category /\ c.parent_id = NULL})
             IN  IF top.raised # NoError THEN [none EXCEPT !.raised = top.raised]
                 ELSE IF ~top.found THEN none
                 ELSE IF fg_subcategory = NULL \/ fg_subcategory = <<>>
                 THEN [none EXCEPT !.category_id = top.row.id]
                 ELSE LET sub == ScalarOneOrNone({c \in cats : c.name_de = fg_subcategory
                                                              /\ c.parent_id = top.row.id})
                      IN  IF sub.raised # NoError THEN [none EXCEPT !.raised = sub.raised]
                          ELSE [ raised |-> NoError,
                                 category_id |-> top.row.id,
                                 subcategory_id |-> IF sub.found THEN sub.row.id ELSE NULL ]

\* The statistics dict of import_from_file at its creation
NewStats(parsed_transactions) ==
    [ total_rows |-> Len(parsed_transactions),
      imported |-> 0,
      skipped |-> 0,
      errors |-> 0,
      error_details |-> <<>> ]

\* The Transaction(...) object import_from_file builds from a parsed row
ImportedRow(user_id, tx_data, m) ==
    [ user_id |-> user_id,
      date |-> tx_data.date,
      amount |-> tx_data.amount,
      counterparty |-> Get(tx_data, "counterparty"),
      description |-> Get(tx_data, "description"),
      category_id |-> m.category_id,
      subcategory_id |-> m.subcategory_id,
      fg_main_category |-> Get(tx_data, "category"),
      notes |-> Get(tx_data, "notes"),
      source |-> "finanzguru",
      import_hash |-> tx_data.import_hash ]

\* A row counted as skipped: the duplicate branch of the loop body
CountSkipped(stats) == [stats EXCEPT !.skipped = @ + 1]

\* An except branch that records the message and forgets the counter
CountErrorUncounted(stats, e) == [stats EXCEPT !.error_details = Append(@, e)]

\* A row counted as an error: the except branch of the loop body
CountError(stats, e) ==
    [stats EXCEPT !.errors = @ + 1, !.error_details = Append(@, e)]

\* A row counted as imported, after db.add
CountImported(stats) == [stats EXCEPT !.imported = @ + 1]

\* One iteration of "for tx_data in parsed_transactions".  acc holds the
\* statistics, existing_hashes and the rows added to the session so far.
ImportRow(acc, cats, user_id, skip_duplicates, tx_data) ==
    IF skip_duplicates /\ tx_data.import_hash \in acc.existing_hashes
    THEN [acc EXCEPT !.stats = CountSkipped(@)]
    ELSE LET m == map_categories(cats, Get(tx_data, "category"), Get(tx_data, "subcategory"))
         IN  IF m.raised # NoError
             THEN [acc EXCEPT !.stats = CountError(@, m.raised)]
             ELSE [ stats |-> CountImported(acc.stats),
                    existing_hashes |-> IF tx_data.import_hash # <<>>
                                        THEN acc.existing_hashes \cup {tx_data.import_hash}
                                        ELSE acc.existing_hashes,
                    pending |-> Append(acc.pending, ImportedRow(user_id, tx_data, m)) ]

\* The whole loop over the parsed rows, in order
RECURSIVE ImportRows(_, _, _, _, _)
ImportRows(acc, cats, user_id, skip_duplicates, rows) ==
    IF rows = <<>> THEN acc
    ELSE ImportRows(ImportRow(acc, cats, user_id, skip_duplicates, Head(rows)),
                    cats, user_id, skip_duplicates, Tail(rows))

\* The query for the hashes of the batch already persisted for the user
ExistingHashes(table, user_id, skip_duplicates, parsed_transactions) ==
    IF skip_duplicates /\ parsed_transactions # <<>>
    THEN { t.import_hash : t \in { x \in table :
                /\ x.user_id = user_id
                /\ \E i \in 1..Len(parsed_transactions) :
                        x.import_hash = parsed_transactions[i].import_hash } }
    ELSE {}

\* os.path.splitext(filename)[1]: from the last dot, unless the name has no dot
\* or nothing but dots before it
SplitExt(filename) ==
    LET dots == {i \in 1..Len(filename) : filename[i] = "."}
    IN  IF dots = {} THEN <<>>
        ELSE LET k == CHOOSE i \in dots : \A j \in dots : j <= i
             IN  IF \A j \in 1..(k - 1) : filename[j] = "." THEN <<>>
                 ELSE SubSeq(filename, k, Len(filename))


(***************************************************************************)
(* The uploads the model draws from                                         *)
(***************************************************************************)

AnalyseHauptkategorie == "Analyse-Hauptkategorie"

SampleColumns == REQUIRED_COLUMNS \cup {AnalyseHauptkategorie}

Auto == <<"A", "u", "t", "o">>

SampleRow(date, amount, counterparty, description, category) ==
    [ c \in SampleColumns |->
        CASE c = "Buchungstag" -> date
          [] c = "Betrag" -> amount
          [] c = "Beguenstigter/Auftraggeber" -> counterparty
          [] c = "Verwendungszweck" -> description
          [] OTHER -> category ]

\* 15.01.2024;-45,67;REWE;;Auto
RowRewe ==
    SampleRow(<<"1", "5", ".", "0", "1", ".", "2", "0", "2", "4">>, <<"-", "4", "5", ",", "6", "7">>,
              <<"R", "E", "W", "E">>, NaN, Auto)

\* 15.01.2024;2.500,00;;Lohn;
RowLohn ==
    SampleRow(<<"1", "5", ".", "0", "1", ".", "2", "0", "2", "4">>, <<"2", ".", "5", "0", "0", ",", "0", "0">>,
              NaN, <<"L", "o", "h", "n">>, NaN)

\* 32.01.2024;1,00;;; a row whose date does not parse
RowBadDate ==
    SampleRow(<<"3", "2", ".", "0", "1", ".", "2", "0", "2", "4">>, <<"1", ",", "0", "0">>, NaN, NaN, NaN)

\* 16.01.2024;abc;REWE;; a row whose amount does not parse
RowBadAmount ==
    SampleRow(<<"1", "6", ".", "0", "1", ".", "2", "0", "2", "4">>, <<"a", "b", "c">>,
              <<"R", "E", "W", "E">>, NaN, NaN)

\* 17.01.2024;-1,00;;  ; a row with an empty counterparty cell and a blank description cell
RowBlank ==
    SampleRow(<<"1", "7", ".", "0", "1", ".", "2", "0", "2", "4">>, <<"-", "1", ",", "0", "0">>,
              NaN, <<" ", " ">>, NaN)

SampleRows == {RowRewe, RowLohn, RowBadDate, RowBadAmount, RowBlank}

NameCsv == <<"f", ".", "c", "s", "v">>

NameTxt == <<"f", ".", "t", "x", "t">>

\* An UploadFile: its filename and, as the data frame pandas reads from its
\* content, the header's column names and the data rows
Upload(filename, columns, rows) == [filename |-> filename, columns |-> columns, rows |-> rows]

\* 3 data rows, 2 of which parse; one names a category
UploadMixed == Upload(NameCsv, SampleColumns, <<RowRewe, RowBadDate, RowLohn>>)

\* the same row twice
UploadTwice == Upload(NameCsv, SampleColumns, <<RowLohn, RowLohn>>)

\* a header with every column and no data row
UploadHeaderOnly == Upload(NameCsv, SampleColumns, <<>>)

\* "Buchungstag,Betrag\n", the file of test_import_empty_file
UploadTestEmpty == Upload(NameCsv, {"Buchungstag", "Betrag"}, <<>>)

UploadTxt == Upload(NameTxt, SampleColumns, <<RowLohn>>)

UploadNoName == Upload(<<>>, SampleColumns, <<RowLohn>>)

Uploads == {UploadMixed, UploadTwice, UploadHeaderOnly, UploadTestEmpty, UploadTxt, UploadNoName}

\* The import requests the model draws from: <<user, upload, skip_duplicates>>
ImportRequests ==
    ({"u1"} \X {UploadMixed, UploadTwice} \X BOOLEAN)
    \cup ({"u2"} \X {UploadMixed, UploadTwice} \X {TRUE})
    \cup ({"u1"} \X {UploadHeaderOnly, UploadTestEmpty, UploadTxt, UploadNoName} \X {TRUE})

\* What parse_finanzguru_file makes of the temporary file an upload is saved to
ParsedUpload ==
    [ f \in Uploads |->
        parse_finanzguru_file([exists |-> TRUE, suffix |-> Lower(SplitExt(f.filename)),
                               columns |-> f.columns, rows |-> f.rows]) ]

\* TransactionCreate bodies of manual entries; the schema has no import_hash
ManualEntries ==
    { [ date |-> <<2024, 1, 15>>, amount |-> <<1, 4567, -2>>, counterparty |-> <<"R", "E", "W", "E">>,
        description |-> NULL, source |-> "manual" ] }

CategoryNames == {Auto}

(***************************************************************************)
(* Requests                                                                 *)
(***************************************************************************)

Idle == [pc |-> "idle"]

\* The frame of one import_from_file call.  Beside the call's own variables it
\* records db_hashes (what the query for existing hashes returned), persisted
\* (how many rows its commit added to the table) and again (see Repeats).
ImportCall(user_id, file, skip_duplicates) ==
    [ pc |-> "start",
      user_id |-> user_id,
      file |-> file,
      skip_duplicates |-> skip_duplicates,
      parsed_transactions |-> <<>>,
      db_hashes |-> {},
      existing_hashes |-> {},
      stats |-> NewStats(<<>>),
      pending |-> <<>>,
      result |-> "pending",
      error |-> NoError,
      persisted |-> 0,
      again |-> FALSE ]

Raised(call, e) == [call EXCEPT !.pc = "done", !.result = "raised", !.error = e]

\* Rows the calls in progress may still insert
InFlight == LET n(s) == IF req[s].pc = "commit" THEN Len(req[s].pending) ELSE 0
            IN  n("s1") + n("s2")

\* Has this very import (same user, same upload, skip_duplicates on) already
\* completed with its statistics in another slot, with no transaction deleted
\* since the store was created (every id issued is still in the table)?
Repeats(s, user_id, file, skip_duplicates) ==
    /\ skip_duplicates
    /\ Cardinality(transactions) = tx_seq
    /\ \E o \in Slots \ {s} :
        /\ req[o].pc = "done" /\ req[o].result = "returned"
        /\ req[o].user_id = user_id /\ req[o].file = file /\ req[o].skip_duplicates

\* import_from_file after its loop: the call waits at its commit with the
\* statistics and the rows added to the session
ImportLooped(s, call, acc) ==
    /\ tx_seq + InFlight + Len(acc.pending) <= MaxTxId
    /\ req' = [req EXCEPT ![s] = [call EXCEPT !.pc = "commit",
                                              !.stats = acc.stats,
                                              !.existing_hashes = acc.existing_hashes,
                                              !.pending = acc.pending]]

\* import_from_file from the statistics dict to the end of the loop over the
\* parsed rows, given what the query for the existing hashes returned
ImportQueried(s, call, hashes) ==
    ImportLooped(s, [call EXCEPT !.db_hashes = hashes],
                 ImportRows([stats |-> NewStats(call.parsed_transactions),
                             existing_hashes |-> hashes,
                             pending |-> <<>>],
                            categories, call.user_id, call.skip_duplicates,
                            call.parsed_transactions))

\* import_from_file from the filename check to the query for the existing
\* hashes, given the extension of the filename and what the parser makes of
\* the temporary file
ImportParsed(s, call, file_ext, parsed) ==
    IF call.file.filename = <<>> THEN req' = [req EXCEPT ![s] = Raised(call, "HTTPException 400")]
    ELSE IF file_ext \notin {XLSX, CSV}
    THEN req' = [req EXCEPT ![s] = Raised(call, "HTTPException 400")]
    ELSE IF parsed.raised # NoError THEN req' = [req EXCEPT ![s] = Raised(call, parsed.raised)]
    ELSE ImportQueried(s, [call EXCEPT !.parsed_transactions = parsed.transactions],
                       ExistingHashes(transactions, call.user_id, call.skip_duplicates,
                                      parsed.transactions))

\* import_from_file up to its commit: the filename and extension checks, the
\* parse of the temporary file, the query for the existing hashes and the loop
\* over the parsed rows.  Nothing is written to the store yet.
ImportStart(s, user_id, file, skip_duplicates) ==
    /\ req[s].pc = "idle"
    /\ ImportParsed(s, [ImportCall(user_id, file, skip_duplicates) EXCEPT
                            !.again = Repeats(s, user_id, file, skip_duplicates)],
                    Lower(SplitExt(file.filename)), ParsedUpload[file])
    /\ UNCHANGED <<transactions, categories, tx_seq, cat_seq, parser, receipts, rc_seq, found, fn>>

\* "await self.db.commit()" and the return of the statistics
ImportCommit(s) ==
    /\ req[s].pc = "commit"
    /\ LET c == Commit(transactions, req[s].pending, tx_seq)
       IN  /\ transactions' = c.table
           /\ tx_seq' = IF c.ok THEN tx_seq + Len(req[s].pending) ELSE tx_seq
           /\ req' = [req EXCEPT ![s] =
                    IF c.ok
                    THEN [@ EXCEPT !.pc = "done", !.result = "returned",
                                   !.persisted = Cardinality(c.table \ transactions)]
                    ELSE [@ EXCEPT !.pc = "done", !.result = "raised", !.error = "IntegrityError",
                                   !.persisted = Cardinality(c.table \ transactions)]]
    /\ UNCHANGED <<categories, cat_seq, parser, receipts, rc_seq, found, fn>>

\* The request is over: the response or the error has gone to the client
RequestEnd(s) ==
    /\ req[s].pc = "done"
    /\ req' = [req EXCEPT ![s] = Idle]
    /\ UNCHANGED <<transactions, categories, tx_seq, cat_seq, parser, receipts, rc_seq, found, fn>>

\* TransactionService.create_transaction
create_transaction(user_id, data) ==
    /\ tx_seq + InFlight + 1 <= MaxTxId
    /\ transactions' = transactions \cup
            {[ id |-> TxId(tx_seq + 1),
               user_id |-> user_id,
               date |-> data.date,
               amount |-> data.amount,
               counterparty |-> data.counterparty,
               description |-> data.description,
               category_id |-> NULL,
               subcategory_id |-> NULL,
               fg_main_category |-> NULL,
               notes |-> NULL,
               source |-> data.source,
               import_hash |-> NULL ]}
    /\ tx_seq' = tx_seq + 1
    /\ UNCHANGED <<categories, cat_seq, req, parser, receipts, rc_seq, found, fn>>

\* The receipts keep their links when a transaction row goes
OnDeleteNoAction(table, transaction_id) == table

\* Foreign key fk_receipts_transaction_id, ondelete='SET NULL': the receipts
\* linked to a deleted transaction lose their link
OnDeleteSetNull(table, transaction_id) ==
    { IF r.transaction_id = transaction_id THEN [r EXCEPT !.transaction_id = NULL] ELSE r :
      r \in table }

\* TransactionService.delete_transaction: False (nothing changes) unless the
\* transaction exists and belongs to the user
delete_transaction(transaction_id, user_id) ==
    /\ transactions' = { t \in transactions : ~(t.id = transaction_id /\ t.user_id = user_id) }
    /\ receipts' = IF \E t \in transactions : t.id = transaction_id /\ t.user_id = user_id
                   THEN OnDeleteSetNull(receipts, transaction_id)
                   ELSE receipts
    /\ UNCHANGED <<categories, tx_seq, cat_seq, req, parser, rc_seq, found, fn>>

\* categories/service.py: create_category
create_category(name_de, parent_id) ==
    /\ cat_seq < MaxCatId
    /\ parent_id = NULL \/ \E c \in categories : c.id = parent_id
    /\ categories' = categories \cup {[id |-> CatId(cat_seq + 1), name_de |-> name_de, parent_id |-> parent_id]}
    /\ cat_seq' = cat_seq + 1
    /\ UNCHANGED <<transactions, tx_seq, req, parser, receipts, rc_seq, found, fn>>

NoParse == [pc |-> "idle"]

NoMatchCall == [pc |-> "idle"]

NoCall == [pc |-> "idle"]

(***************************************************************************)
(* parse_finanzguru_file, one row of the frame at a time                    *)
(***************************************************************************)

\* How many data rows a file of the stand-alone parser has at most
MaxRows == 3

CsvSuffix == <<".", "C", "S", "V">>

TxtSuffix == <<".", "t", "x", "t">>

\* The sample rows as rows of a frame with the given columns
RECURSIVE FrameRows(_, _)
FrameRows(columns, rows) ==
    IF rows = <<>> THEN <<>>
    ELSE <<[c \in columns |-> Head(rows)[c]]>> \o FrameRows(columns, Tail(rows))

\* The sequences of at most MaxRows sample rows
RowSeqs == UNION { [1..n -> SampleRows] : n \in 0..MaxRows }

\* A file of the stand-alone parser
ParseFile(exists, suffix, columns, rows) ==
    [exists |-> exists, suffix |-> suffix, columns |-> columns, rows |-> FrameRows(columns, rows)]

\* The files the stand-alone parser is called on: readable files with every
\* required column and up to MaxRows rows, and files of every header, suffix
\* and existence with at most one row
ParseFiles ==
    { ParseFile(TRUE, CsvSuffix, cs, rs) : cs \in {REQUIRED_COLUMNS, SampleColumns}, rs \in RowSeqs }
    \cup { ParseFile(e, x, cs, rs) :
            e \in BOOLEAN, x \in {CsvSuffix, TxtSuffix}, cs \in SUBSET SampleColumns,
            rs \in {<<>>} \cup { <<r>> : r \in SampleRows } }

\* The call up to the row loop: the file-level checks
ParseOpen(file) ==
    /\ parser.pc = "idle"
    /\ parser' = [ pc |-> IF OpenFrame(file).raised # NoError THEN "raised" ELSE "rows",
                   file |-> file,
                   raised |-> OpenFrame(file).raised,
                   missing |-> OpenFrame(file).missing,
                   idx |-> 0,
                   transactions |-> <<>> ]
    /\ UNCHANGED <<transactions, categories, tx_seq, cat_seq, req, receipts, rc_seq, found, fn>>

\* A row loop without the try/except: the first row that fails ends the call
ParseNextRowAborting ==
    /\ parser.pc = "rows"
    /\ parser.idx < Len(parser.file.rows)
    /\ parser' = IF ParseRow(parser.file.columns, parser.file.rows[parser.idx + 1]).ok
                  THEN [parser EXCEPT
                          !.idx = @ + 1,
                          !.transactions = @ \o Collect(ParseRow(parser.file.columns,
                                                                 parser.file.rows[parser.idx + 1]), <<>>)]
                  ELSE [parser EXCEPT !.pc = "raised", !.raised = "ValueError", !.transactions = <<>>]
    /\ UNCHANGED <<transactions, categories, tx_seq, cat_seq, req, receipts, rc_seq, found, fn>>

\* One iteration of "for idx, row in df.iterrows()"
ParseNextRow ==
    /\ parser.pc = "rows"
    /\ parser.idx < Len(parser.file.rows)
    /\ parser' = [parser EXCEPT
                    !.idx = @ + 1,
                    !.transactions = @ \o Collect(ParseRow(parser.file.columns,
                                                           parser.file.rows[parser.idx + 1]), <<>>)]
    /\ UNCHANGED <<transactions, categories, tx_seq, cat_seq, req, receipts, rc_seq, found, fn>>

\* "return transactions" after the last row
ParseReturn ==
    /\ parser.pc = "rows"
    /\ parser.idx = Len(parser.file.rows)
    /\ parser' = [parser EXCEPT !.pc = "returned"]
    /\ UNCHANGED <<transactions, categories, tx_seq, cat_seq, req, receipts, rc_seq, found, fn>>

\* The caller has the list or the exception
ParseEnd ==
    /\ parser.pc \in {"raised", "returned"}
    /\ parser' = NoParse
    /\ UNCHANGED <<transactions, categories, tx_seq, cat_seq, req, receipts, rc_seq, found, fn>>

(***************************************************************************)
(* Calls of the locale parsers and of the import hasher                     *)
(***************************************************************************)

\* The date texts parse_german_date is called on
DateTexts ==
    { <<"1", "5", ".", "0", "1", ".", "2", "0", "2", "4">>,
      <<"0", "1", ".", "1", "2", ".", "2", "0", "2", "3">>,
      <<"2", "9", ".", "0", "2", ".", "2", "0", "2", "4">>,
      <<"2", "9", ".", "0", "2", ".", "2", "0", "2", "3">>,
      <<"3", "2", ".", "0", "1", ".", "2", "0", "2", "4">>,
      <<"3", "1", ".", "0", "4", ".", "2", "0", "2", "4">>,
      <<"1", "5", ".", "1", "3", ".", "2", "0", "2", "4">>,
      <<"0", "0", ".", "0", "1", ".", "2", "0", "2", "4">>,
      <<"1", "5", ".", "0", "1", ".", "0", "0", "0", "0">>,
      <<"2", "0", "2", "4", "-", "0", "1", "-", "1", "5">>,
      <<"1", ".", "1", ".", "2", "0", "2", "4">>,
      <<"1", "5", ".", "0", "1", ".", "2", "4">>,
      <<"1", "5", ".", "0", "1", ".", "2", "0", "2", "4", ".">>,
      <<"1", "5", ".", "0", "1">>,
      <<" ", "1", "5", ".", "0", "1", ".", "2", "0", "2", "4", " ">>,
      <<"1", "5", ".", " ", "1", ".", "2", "0", "2", "4">>,
      <<"+", "5", ".", "0", "1", ".", "2", "0", "2", "4">>,
      <<"a", "a", ".", "b", "b", ".", "c", "c", "c", "c">>,
      <<" ", " ">>,
      <<>>,
      NaN }

\* The amount texts of the rows whose import hashes are compared
AmountTexts ==
    { <<"4", "5", ",", "5">>,
      <<"4", "5", ",", "5", "0">>,
      <<"4", "5", ",", "5", "0", "0">>,
      <<"4", "5", ",", "6", "7">>,
      <<"-", "4", "5", ",", "5", "0">>,
      <<"2", ".", "5", "0", "0", ",", "0", "0">>,
      <<"2", "5", "0", "0">> }

\* A call of parse_german_date
DateCall(date_str) == [pc |-> "called", op |-> "parse_german_date", date_str |-> date_str]

\* The import hashes of two rows of one day that differ at most in how their
\* amount is written
HashCall(amount_strs, counterparty, description) ==
    [ pc |-> "called", op |-> "generate_import_hash", transaction_date |-> <<2024, 1, 15>>,
      amount_strs |-> amount_strs, counterparty |-> counterparty, description |-> description ]

\* The calls the model draws from
PureCalls ==
    { DateCall(d) : d \in DateTexts }
    \cup { HashCall(<<a, b>>, c, <<"L", "o", "h", "n">>) :
            a \in AmountTexts, b \in AmountTexts, c \in {<<>>, <<"R", "E", "W", "E">>} }

\* parse_german_date returns or raises
ApplyParseDate ==
    /\ fn.pc = "called" /\ fn.op = "parse_german_date"
    /\ fn' = [ pc |-> "returned", op |-> fn.op, date_str |-> fn.date_str,
               out |-> parse_german_date(fn.date_str) ]
    /\ UNCHANGED <<transactions, categories, tx_seq, cat_seq, req, parser, receipts, rc_seq, found>>

\* The hash of a row from its parsed amount
HashOfAmount(transaction_date, a, counterparty, description) ==
    generate_import_hash(transaction_date, a.amount, counterparty, description)

\* parse_german_amount on both amount texts (they parse), then generate_import_hash
\* for both rows
ApplyImportHash ==
    /\ fn.pc = "called" /\ fn.op = "generate_import_hash"
    /\ fn' = [ pc |-> "returned", op |-> fn.op, transaction_date |-> fn.transaction_date,
               amount_strs |-> fn.amount_strs,
               counterparty |-> fn.counterparty, description |-> fn.description,
               amounts |-> << parse_german_amount(fn.amount_strs[1]).amount,
                              parse_german_amount(fn.amount_strs[2]).amount >>,
               out |-> << HashOfAmount(fn.transaction_date, parse_german_amount(fn.amount_strs[1]),
                                       fn.counterparty, fn.description),
                          HashOfAmount(fn.transaction_date, parse_german_amount(fn.amount_strs[2]),
                                       fn.counterparty, fn.description) >> ]
    /\ UNCHANGED <<transactions, categories, tx_seq, cat_seq, req, parser, receipts, rc_seq, found>>

(***************************************************************************)
(* receipts/service.py: find_matching_transactions                          *)
(***************************************************************************)

\* A JSON value of the JSONB column extracted_data: t is "str" (v the text),
\* "num" (v the text str() gives for the number), "null", or "obj" (v the
\* values by key)
Json(t, v) == [t |-> t, v |-> v]

\* "(receipt.extracted_data or {}).get(key)": None when the column is NULL or
\* the key is absent
DataGet(extracted_data, key) ==
    IF extracted_data.t = "obj" /\ key \in DOMAIN extracted_data.v
    THEN extracted_data.v[key]
    ELSE Json("null", <<>>)

\* "extracted_data.get('date') if isinstance(extracted_data.get('date'), str) else None"
ReceiptDate(extracted_data) ==
    IF DataGet(extracted_data, "date").t = "str" THEN DataGet(extracted_data, "date").v ELSE NULL

\* "extracted_data.get('merchant', '').lower()": the default only replaces an
\* absent key; a value that is no text has no lower() and raises
\* AttributeError.  [ok, value]
MerchantOf(extracted_data) ==
    IF ~(extracted_data.t = "obj" /\ "merchant" \in DOMAIN extracted_data.v)
    THEN [ok |-> TRUE, value |-> <<>>]
    ELSE IF extracted_data.v["merchant"].t = "str"
    THEN [ok |-> TRUE, value |-> Lower(extracted_data.v["merchant"].v)]
    ELSE [ok |-> FALSE, value |-> <<>>]

\* datetime.strptime(text, '%Y-%m-%d').date() from the parts between the
\* hyphens: four digits of year, one or two of month (1 to 12), one or two
\* of day or a blank and one (1 to 31), then the date has to exist.
\* ValueError otherwise.  [ok, date]
StrpOfParts(parts) ==
    IF /\ Len(parts) = 3
       /\ AllDigits(parts[1]) /\ Len(parts[1]) = 4
       /\ AllDigits(parts[2]) /\ Len(parts[2]) \in {1, 2}
       /\ DigitsVal(parts[2]) >= 1 /\ DigitsVal(parts[2]) <= 12
       /\ \/ AllDigits(parts[3]) /\ Len(parts[3]) \in {1, 2} /\ DigitsVal(parts[3]) >= 1
          \/ Len(parts[3]) = 2 /\ parts[3][1] = " " /\ IsDigit(parts[3][2]) /\ parts[3][2] # "0"
       /\ ValidDate(DigitsVal(parts[1]), DigitsVal(parts[2]), DigitsVal(LStrip(parts[3])))
    THEN [ok |-> TRUE,
          date |-> <<DigitsVal(parts[1]), DigitsVal(parts[2]), DigitsVal(LStrip(parts[3]))>>]
    ELSE [ok |-> FALSE, date |-> NULL]

StrpTime(text) == StrpOfParts(Split(text, "-"))

\* The days of the months of year y before month m
RECURSIVE DaysBeforeMonth(_, _)
DaysBeforeMonth(y, m) ==
    IF m = 1 THEN 0 ELSE DaysBeforeMonth(y, m - 1) + DaysInMonth(y, m - 1)

\* date.toordinal(): day 1 is 0001-01-01
ToOrdinal(dt) ==
    (dt[1] - 1) * 365 + ((dt[1] - 1) \div 4) - ((dt[1] - 1) \div 100) + ((dt[1] - 1) \div 400)
        + DaysBeforeMonth(dt[1], dt[2]) + dt[3]

Abs(x) == IF x < 0 THEN 0 - x ELSE x

\* The date filter of the query, from the parse of a non-empty date text:
\* none if the text is no date (ValueError is caught), the days
\* [date - 7, date + 7] otherwise; "date_obj -/+ timedelta(days=7)" raises
\* OverflowError, which nothing catches, when it leaves date.min .. date.max
\* (0001-01-01 .. 9999-12-31)
WindowOf(parsed) ==
    IF ~parsed.ok THEN [kind |-> "none", ord |-> 0]
    ELSE IF ToOrdinal(parsed.date) - 7 < 1 \/ ToOrdinal(parsed.date) + 7 > ToOrdinal(<<9999, 12, 31>>)
    THEN [kind |-> "overflow", ord |-> ToOrdinal(parsed.date)]
    ELSE [kind |-> "window", ord |-> ToOrdinal(parsed.date)]

\* "if receipt_date:" is false for None and for the empty text
Window(receipt_date) ==
    IF receipt_date = NULL \/ receipt_date = <<>> THEN [kind |-> "none", ord |-> 0]
    ELSE WindowOf(StrpTime(receipt_date))

\* The window without its two ends
CandidatesInside(table, user_id, window) ==
    { txn \in table :
        /\ txn.user_id = user_id
        /\ window.kind = "window" =>
                /\ ToOrdinal(txn.date) > window.ord - 7
                /\ ToOrdinal(txn.date) < window.ord + 7 }

\* The rows the query selects: the user's, inside the date window if there is one
Candidates(table, user_id, window) ==
    { txn \in table :
        /\ txn.user_id = user_id
        /\ window.kind = "window" =>
                /\ ToOrdinal(txn.date) >= window.ord - 7
                /\ ToOrdinal(txn.date) <= window.ord + 7 }

\* "query.limit(100)"
FetchLimit == 100

\* What "db.execute(query.limit(100))" may return: the query has no ORDER BY,
\* so the database is free in which rows it returns up to the limit and in
\* their order.  Up to the limit every order of the rows is taken; beyond it
\* every choice of the rows left out, the rest in the order of insertion (the
\* orders of a sequential scan)
PoolOrders(rows) ==
    LET RECURSIVE left_out(_)
        left_out(n) ==
            IF n = 0 THEN {{}}
            ELSE UNION { { D \cup {r} : r \in rows \ D } : D \in left_out(n - 1) }
        scanned(kept) ==
            LET last == CHOOSE n \in { r.id[2] : r \in kept } :
                            \A r \in kept : r.id[2] <= n
                stored(n) == \E r \in kept : r.id[2] = n
                ids == SelectSeq([n \in 1..last |-> n], stored)
            IN  [ i \in 1..Len(ids) |-> CHOOSE r \in kept : r.id[2] = ids[i] ]
    IN  IF Cardinality(rows) <= FetchLimit
        THEN { pool \in [1..Cardinality(rows) -> rows] :
                    \A i, j \in 1..Cardinality(rows) : i # j => pool[i] # pool[j] }
        ELSE { scanned(rows \ D) : D \in left_out(Cardinality(rows) - FetchLimit) }

\* Date matching: 40 points on the day, 30 within two days, 20 within seven
DateBand(days_diff) ==
    IF days_diff = 0 THEN 40
    ELSE IF days_diff <= 2 THEN 30
    ELSE IF days_diff <= 7 THEN 20
    ELSE 0

\* Nothing unless the receipt's date text is non-empty and parses
DateScore(receipt_date, txn) ==
    IF receipt_date = NULL \/ receipt_date = <<>> THEN 0
    ELSE IF ~StrpTime(receipt_date).ok THEN 0
    ELSE DateBand(Abs(ToOrdinal(txn.date) - ToOrdinal(StrpTime(receipt_date).date)))

\* "if receipt_total and txn.amount:": None, the empty text, the number zero
\* and a Decimal of zero are false
AmountCompared(total, txn) ==
    /\ \/ total.t = "str" /\ total.v # <<>>
       \/ total.t = "num" /\ PyDecimal(total.v).value[2] # 0
    /\ txn.amount # NULL /\ txn.amount[2] # 0

\* "Decimal(str(receipt_total))" raises decimal.InvalidOperation for a text
\* that is no number; it is none of the exceptions caught
AmountRaises(total, txn) == AmountCompared(total, txn) /\ ~PyDecimal(total.v).ok

\* amount_diff in units of 10 ** e against one cent in the same units
DiffBand(amount_diff, cent) ==
    IF amount_diff = 0 THEN 40
    ELSE IF amount_diff <= cent THEN 35
    ELSE IF amount_diff <= 100 * cent THEN 25
    ELSE IF amount_diff <= 500 * cent THEN 15
    ELSE 0

\* abs(abs(receipt_amount) - abs(txn_amount)) with both at exponent e, the
\* smaller of their exponents and of -2
AmountBand(receipt_amount, txn_amount, e) ==
    DiffBand(Abs(DecScaled(receipt_amount, e) - DecScaled(txn_amount, e)), Pow10(-2 - e))

\* Amount matching: 40 points if equal, 35 within a cent, 25 within one euro,
\* 15 within five
AmountScore(total, txn) ==
    IF AmountCompared(total, txn)
    THEN AmountBand(PyDecimal(total.v).value, txn.amount,
                    MinExp(MinExp(PyDecimal(total.v).value[3], txn.amount[3]), -2))
    ELSE 0

\* "a in b" for texts
IsSubstring(a, b) ==
    \E i \in 0..(Len(b) - Len(a)) : SubSeq(b, i + 1, i + Len(a)) = a

\* 20 if one text is inside the other, 10 if a word of merchant.split() (the
\* non-empty parts between blanks) longer than 3 is inside the counterparty
MerchantBand(merchant, counterparty_lower) ==
    IF IsSubstring(merchant, counterparty_lower) \/ IsSubstring(counterparty_lower, merchant)
    THEN 20
    ELSE IF \E i \in 1..Len(Split(merchant, " ")) :
                /\ Len(Split(merchant, " ")[i]) > 3
                /\ IsSubstring(Split(merchant, " ")[i], counterparty_lower)
    THEN 10
    ELSE 0

\* Merchant matching: "if merchant and txn.counterparty:"
MerchantScore(merchant, txn) ==
    IF merchant # <<>> /\ txn.counterparty # NULL /\ txn.counterparty # <<>>
    THEN MerchantBand(merchant, Lower(txn.counterparty))
    ELSE 0

\* One element of the result: the pair (txn, score) the code returns, with the
\* three parts the score was added up from
Match(txn, date_score, amount_score, merchant_score) ==
    [ txn |-> txn,
      confidence |-> date_score + amount_score + merchant_score,
      date_score |-> date_score,
      amount_score |-> amount_score,
      merchant_score |-> merchant_score ]

\* Every row scored is appended
AppendedAlways(matches, m) == Append(matches, m)

\* "if score >= 10.0: matches.append((txn, score))"
Appended(matches, m) == IF m.confidence >= 10 THEN Append(matches, m) ELSE matches

\* "for txn in transactions:" over the rows lo..hi of the pool, the first
\* half before the second; an exception ends the loop.  [raised, matches]
RECURSIVE ScoreLoop(_, _, _, _, _, _)
ScoreLoop(pool, lo, hi, receipt_date, total, merchant) ==
    IF lo > hi THEN [raised |-> NoError, matches |-> <<>>]
    ELSE IF lo = hi
    THEN IF AmountRaises(total, pool[lo]) THEN [raised |-> "InvalidOperation", matches |-> <<>>]
         ELSE [ raised |-> NoError,
                matches |-> Appended(<<>>, Match(pool[lo], DateScore(receipt_date, pool[lo]),
                                                 AmountScore(total, pool[lo]),
                                                 MerchantScore(merchant, pool[lo]))) ]
    ELSE LET first == ScoreLoop(pool, lo, (lo + hi) \div 2, receipt_date, total, merchant)
             second == ScoreLoop(pool, (lo + hi) \div 2 + 1, hi, receipt_date, total, merchant)
         IN  IF first.raised # NoError THEN first
             ELSE IF second.raised # NoError THEN second
             ELSE [raised |-> NoError, matches |-> first.matches \o second.matches]

\* list.sort(key=score, reverse=True) is stable: m goes behind every element
\* whose score is no smaller
RECURSIVE InsertByScore(_, _)
InsertByScore(sorted, m) ==
    IF sorted = <<>> THEN <<m>>
    ELSE IF Head(sorted).confidence >= m.confidence
    THEN <<Head(sorted)>> \o InsertByScore(Tail(sorted), m)
    ELSE <<m>> \o sorted

RECURSIVE SortInto(_, _)
SortInto(sorted, rest) ==
    IF rest = <<>> THEN sorted ELSE SortInto(InsertByScore(sorted, Head(rest)), Tail(rest))

\* The list is returned as the loop left it
SortByScoreSkipped(matches) == matches

\* "matches.sort(key=lambda x: x[1], reverse=True)"
SortByScore(matches) == SortInto(<<>>, matches)

\* A finished call: its arguments, the rows its query returned, the exception
\* it raised if any, and the list it returned: the matches sorted and cut
\* by "matches[:max_results]" (max_results >= 0)
MatchCall(receipt, user_id, max_results, pool, out) ==
    [ pc |-> "done",
      receipt |-> receipt,
      user_id |-> user_id,
      max_results |-> max_results,
      pool |-> pool,
      raised |-> out.raised,
      matches |-> IF out.raised # NoError THEN <<>>
                  ELSE SubSeq(SortByScore(out.matches), 1,
                              IF max_results <= Len(out.matches) THEN max_results
                              ELSE Len(out.matches)) ]

\* The call links the receipt to one of the user's transactions on its way
FindAndLink(receipt, user_id, max_results) ==
    /\ found.pc = "idle"
    /\ \E t \in transactions :
            /\ t.user_id = user_id
            /\ receipts' = { IF r.id = receipt.id THEN [r EXCEPT !.transaction_id = t.id] ELSE r :
                             r \in receipts }
            /\ found' = MatchCall(receipt, user_id, max_results, <<t>>,
                                  [raised |-> NoError, matches |-> <<>>])
    /\ UNCHANGED <<transactions, categories, tx_seq, cat_seq, req, parser, rc_seq, fn>>

\* find_matching_transactions(db, receipt, user_id, max_results)
find_matching_transactions(receipt, user_id, max_results) ==
    /\ found.pc = "idle"
    /\ IF ~MerchantOf(receipt.extracted_data).ok
       THEN found' = MatchCall(receipt, user_id, max_results, <<>>,
                              [raised |-> "AttributeError", matches |-> <<>>])
       ELSE IF Window(ReceiptDate(receipt.extracted_data)).kind = "overflow"
       THEN found' = MatchCall(receipt, user_id, max_results, <<>>,
                              [raised |-> "OverflowError", matches |-> <<>>])
       ELSE \E pool \in PoolOrders(Candidates(transactions, user_id,
                                              Window(ReceiptDate(receipt.extracted_data)))) :
                found' = MatchCall(receipt, user_id, max_results, pool,
                                   ScoreLoop(pool, 1, Len(pool),
                                             ReceiptDate(receipt.extracted_data),
                                             DataGet(receipt.extracted_data, "total"),
                                             MerchantOf(receipt.extracted_data).value))
    /\ UNCHANGED <<transactions, categories, tx_seq, cat_seq, req, parser, receipts, rc_seq, fn>>

\* The caller has the list or the exception
MatchEnd ==
    /\ found.pc = "done"
    /\ found' = NoMatchCall
    /\ UNCHANGED <<transactions, categories, tx_seq, cat_seq, req, parser, receipts, rc_seq, fn>>

\* How many receipts and transactions the matcher's runs store at most
MaxRcId == 2

MaxMatchTx == 2

MaxMatchRc == 1

\* A row of table receipts is committed: extracted_data is what the OCR step
\* left in the column, transaction_id is NULL until the receipt is linked
ReceiptStored(user_id, extracted_data) ==
    /\ rc_seq < MaxRcId
    /\ receipts' = receipts \cup
            {[ id |-> <<"rc", rc_seq + 1>>,
               user_id |-> user_id,
               transaction_id |-> NULL,
               extracted_data |-> extracted_data ]}
    /\ rc_seq' = rc_seq + 1
    /\ UNCHANGED <<transactions, categories, tx_seq, cat_seq, req, parser, found, fn>>

(***************************************************************************)
(* The transactions and receipts of the matcher's runs.  The receipts are   *)
(* dated 2024-01-15 unless said otherwise.                                  *)
(***************************************************************************)

\* TransactionCreate bodies.  In this order: the transaction of
\* tests/test_receipt_matching.py (the receipt's day, -42.99); the one of
\* test_find_match_different_date (three days earlier); the one of
\* test_no_matches_different_amount (-10.00); seven days earlier and a cent
\* off, no counterparty; seven days later, amount zero; eight days later; the
\* receipt's day, amount zero; two days earlier, five euros off; the receipt's
\* day, one euro off, an empty counterparty
MatchEntries ==
    { [ date |-> d[1], amount |-> d[2], counterparty |-> d[3],
        description |-> NULL, source |-> "manual" ] :
      d \in { <<<<2024, 1, 15>>, <<1, 4299, -2>>, <<"R", "E", "W", "E", " ", "S", "u", "p", "e", "r", "m", "a", "r", "k", "e", "t">>>>,
              <<<<2024, 1, 12>>, <<1, 4299, -2>>, <<"R", "E", "W", "E">>>>,
              <<<<2024, 1, 15>>, <<1, 1000, -2>>, <<"S", "t", "o", "r", "e">>>>,
              <<<<2024, 1, 8>>, <<1, 4300, -2>>, NULL>>,
              <<<<2024, 1, 22>>, <<0, 0, -2>>, <<"R", "E", "W", "E">>>>,
              <<<<2024, 1, 23>>, <<1, 4299, -2>>, <<"R", "E", "W", "E">>>>,
              <<<<2024, 1, 15>>, <<0, 0, -2>>, NULL>>,
              <<<<2024, 1, 13>>, <<1, 4799, -2>>, <<"S", "a", "m", "p", "l", "e", " ", "G", "m", "b", "H">>>>,
              <<<<2024, 1, 15>>, <<0, 4399, -2>>, <<>>>> } }

\* What the OCR step may have left in extracted_data
ReceiptData ==
    { \* the receipt of tests/test_receipt_matching.py
      Json("obj", [ date |-> Json("str", <<"2", "0", "2", "4", "-", "0", "1", "-", "1", "5">>),
                 total |-> Json("num", <<"4", "2", ".", "9", "9">>),
                 merchant |-> Json("str", <<"R", "E", "W", "E">>) ]),
      \* the receipt of test_no_matches_different_amount
      Json("obj", [ date |-> Json("str", <<"2", "0", "2", "4", "-", "0", "1", "-", "1", "5">>),
                 total |-> Json("num", <<"1", "0", "0", ".", "0">>),
                 merchant |-> Json("str", <<"S", "t", "o", "r", "e">>) ]),
      \* the placeholder result of process_receipt_ocr
      Json("obj", [ date |-> Json("str", <<"2", "0", "2", "6", "-", "0", "1", "-", "2", "1">>),
                 total |-> Json("num", <<"4", "2", ".", "9", "9">>),
                 merchant |-> Json("str", <<"S", "a", "m", "p", "l", "e", " ", "S", "t", "o", "r", "e">>) ]),
      \* a total of zero, no merchant
      Json("obj", [ date |-> Json("str", <<"2", "0", "2", "4", "-", "0", "1", "-", "1", "5">>),
                 total |-> Json("num", <<"0">>) ]),
      \* no date
      Json("obj", [ total |-> Json("num", <<"4", "2", ".", "9", "9">>),
                 merchant |-> Json("str", <<"R", "E", "W", "E">>) ]),
      \* a date that is not ISO
      Json("obj", [ date |-> Json("str", <<"1", "5", ".", "0", "1", ".", "2", "0", "2", "4">>),
                 total |-> Json("num", <<"4", "2", ".", "9", "9">>),
                 merchant |-> Json("str", <<"R", "E", "W", "E">>) ]),
      \* a date without leading zeros
      Json("obj", [ date |-> Json("str", <<"2", "0", "2", "4", "-", "1", "-", "1", "5">>),
                 total |-> Json("num", <<"4", "2", ".", "9", "9">>),
                 merchant |-> Json("str", <<"r", "e", "w", "e">>) ]),
      \* an empty date, no total
      Json("obj", [ date |-> Json("str", <<>>),
                 merchant |-> Json("str", <<"S", "a", "m", "p", "l", "e", " ", "S", "t", "o", "r", "e">>) ]),
      \* a date that is a number
      Json("obj", [ date |-> Json("num", <<"2", "0", "2", "4", "0", "1", "1", "5">>),
                 total |-> Json("num", <<"4", "2", ".", "9", "9">>),
                 merchant |-> Json("str", <<"R", "E", "W", "E">>) ]),
      \* a merchant of null
      Json("obj", [ date |-> Json("str", <<"2", "0", "2", "4", "-", "0", "1", "-", "1", "5">>),
                 total |-> Json("num", <<"4", "2", ".", "9", "9">>),
                 merchant |-> Json("null", <<>>) ]),
      \* a total that is the text of a number
      Json("obj", [ date |-> Json("str", <<"2", "0", "2", "4", "-", "0", "1", "-", "1", "5">>),
                 total |-> Json("str", <<"4", "2", ".", "9", "9">>),
                 merchant |-> Json("str", <<"S", "a", "m", "p", "l", "e", " ", "S", "t", "o", "r", "e">>) ]),
      \* a total that is a text of no number
      Json("obj", [ date |-> Json("str", <<"2", "0", "2", "4", "-", "0", "1", "-", "1", "5">>),
                 total |-> Json("str", <<"a", "b", "c">>),
                 merchant |-> Json("str", <<"R", "E", "W", "E">>) ]),
      \* a date in the first week of date.min
      Json("obj", [ date |-> Json("str", <<"0", "0", "0", "1", "-", "0", "1", "-", "0", "3">>),
                 total |-> Json("num", <<"4", "2", ".", "9", "9">>),
                 merchant |-> Json("str", <<"R", "E", "W", "E">>) ]),
      \* the column is NULL: the receipt has not been read
      Json("null", <<>>) }

\* "max_results: int = 10"
DefaultMaxResults == 10

(***************************************************************************)
(* receipts/service.py: linking a receipt to a transaction                  *)
(***************************************************************************)

\* The transaction is looked up by its id alone
LinkAnyTransaction(receipt_id, transaction_id, user_id) ==
    /\ fn.pc = "idle"
    /\ \E r \in receipts : r.id = receipt_id /\ r.user_id = user_id
    /\ \E t \in transactions : t.id = transaction_id
    /\ receipts' = { IF r.id = receipt_id THEN [r EXCEPT !.transaction_id = transaction_id] ELSE r :
                     r \in receipts }
    /\ fn' = [ pc |-> "returned", op |-> "link_receipt_to_transaction",
               receipt_id |-> receipt_id, transaction_id |-> transaction_id,
               user_id |-> user_id, out |-> "Receipt" ]
    /\ UNCHANGED <<transactions, categories, tx_seq, cat_seq, req, parser, rc_seq, found>>

\* link_receipt_to_transaction: None, and nothing changes, unless the receipt
\* and the transaction exist and both belong to the user
link_receipt_to_transaction(receipt_id, transaction_id, user_id) ==
    /\ fn.pc = "idle"
    /\ IF /\ \E r \in receipts : r.id = receipt_id /\ r.user_id = user_id
          /\ \E t \in transactions : t.id = transaction_id /\ t.user_id = user_id
       THEN /\ receipts' = { IF r.id = receipt_id
                             THEN [r EXCEPT !.transaction_id = transaction_id] ELSE r :
                             r \in receipts }
            /\ fn' = [ pc |-> "returned", op |-> "link_receipt_to_transaction",
                       receipt_id |-> receipt_id, transaction_id |-> transaction_id,
                       user_id |-> user_id, out |-> "Receipt" ]
       ELSE /\ receipts' = receipts
            /\ fn' = [ pc |-> "returned", op |-> "link_receipt_to_transaction",
                       receipt_id |-> receipt_id, transaction_id |-> transaction_id,
                       user_id |-> user_id, out |-> "None" ]
    /\ UNCHANGED <<transactions, categories, tx_seq, cat_seq, req, parser, rc_seq, found>>

\* unlink_receipt_from_transaction: None unless the receipt exists and belongs
\* to the user
unlink_receipt_from_transaction(receipt_id, user_id) ==
    /\ fn.pc = "idle"
    /\ IF \E r \in receipts : r.id = receipt_id /\ r.user_id = user_id
       THEN /\ receipts' = { IF r.id = receipt_id THEN [r EXCEPT !.transaction_id = NULL] ELSE r :
                             r \in receipts }
            /\ fn' = [ pc |-> "returned", op |-> "unlink_receipt_from_transaction",
                       receipt_id |-> receipt_id, transaction_id |-> NULL,
                       user_id |-> user_id, out |-> "Receipt" ]
       ELSE /\ receipts' = receipts
            /\ fn' = [ pc |-> "returned", op |-> "unlink_receipt_from_transaction",
                       receipt_id |-> receipt_id, transaction_id |-> NULL,
                       user_id |-> user_id, out |-> "None" ]
    /\ UNCHANGED <<transactions, categories, tx_seq, cat_seq, req, parser, rc_seq, found>>

\* The caller has the return value
CallEnd ==
    /\ fn.pc = "returned"
    /\ fn' = NoCall
    /\ UNCHANGED <<transactions, categories, tx_seq, cat_seq, req, parser, receipts, rc_seq, found>>

(***************************************************************************)
(* categories/service.py: the category tree.  A call reads, awaits, and     *)
(* commits later; calls of other requests run in between.                   *)
(***************************************************************************)

\* update_category.  First step: the category is loaded (None if absent), a
\* new parent that is the category itself or one of its descendants (the
\* recursive query of _get_descendant_ids) raises ValueError; the query (UNION
\* ALL) has no end when a descendant is its own descendant, and the call
\* stays in it.  Second step:
\* the commit writes the fields that differ from the loaded row; the row can
\* be gone by then (StaleDataError) and the foreign key on parent_id can
\* refuse the new parent (IntegrityError).
update_category(s, category_id, update_data) ==
    LET children(ids) == { c.id : c \in { x \in categories : x.parent_id \in ids } }
        RECURSIVE descendants(_, _)
        descendants(ids, n) ==
            IF n = 0 THEN ids ELSE descendants(ids \cup children(ids), n - 1)
        descendant_ids == descendants(children({category_id}), Cardinality(categories))
        call(pc, loaded, result) ==
            [ pc |-> pc, op |-> "update_category", category_id |-> category_id,
              update_data |-> update_data, loaded |-> loaded, result |-> result ]
        written(loaded) == { f \in DOMAIN update_data : update_data[f] # loaded[f] }
        updated(c, fields) == [ f \in DOMAIN c |-> IF f \in fields THEN update_data[f] ELSE c[f] ]
    IN
    \/ /\ req[s].pc = "idle"
       /\ req' = [req EXCEPT ![s] =
            IF ~\E c \in categories : c.id = category_id
            THEN call("done", NULL, "None")
            ELSE IF "parent_id" \in DOMAIN update_data /\ update_data.parent_id = category_id
            THEN call("done", NULL, "ValueError")
            ELSE IF /\ "parent_id" \in DOMAIN update_data
                    /\ update_data.parent_id # NULL
                    /\ \E d \in descendant_ids :
                            d \in descendants(children({d}), Cardinality(categories))
            THEN call("query", NULL, "")
            ELSE IF /\ "parent_id" \in DOMAIN update_data
                    /\ update_data.parent_id # NULL
                    /\ update_data.parent_id \in descendant_ids
            THEN call("done", NULL, "ValueError")
            ELSE call("update_commit", CHOOSE c \in categories : c.id = category_id, "")]
       /\ UNCHANGED <<transactions, categories, tx_seq, cat_seq, parser, receipts, rc_seq, found, fn>>
    \/ /\ req[s].pc = "update_commit"
       /\ req[s].category_id = category_id
       /\ req[s].update_data = update_data
       /\ LET fields == written(req[s].loaded)
              present == \E c \in categories : c.id = category_id
              refused == /\ "parent_id" \in fields
                         /\ update_data.parent_id # NULL
                         /\ ~\E p \in categories : p.id = update_data.parent_id
          IN /\ categories' =
                    IF fields = {} \/ ~present \/ refused THEN categories
                    ELSE { IF c.id = category_id THEN updated(c, fields) ELSE c : c \in categories }
             /\ req' = [req EXCEPT ![s] =
                    call("done", req[s].loaded,
                         IF fields = {} THEN "Category"
                         ELSE IF ~present THEN "StaleDataError"
                         ELSE IF refused THEN "IntegrityError"
                         ELSE "Category")]
       /\ UNCHANGED <<transactions, tx_seq, cat_seq, parser, receipts, rc_seq, found, fn>>

\* The category goes, whatever refers to it
DeleteUnchecked(s, category_id) ==
    /\ req[s].pc = "idle"
    /\ \E c \in categories : c.id = category_id
    /\ categories' = { c \in categories : c.id # category_id }
    /\ req' = [req EXCEPT ![s] = [ pc |-> "done", op |-> "delete_category",
                                   category_id |-> category_id, result |-> "deleted" ]]
    /\ UNCHANGED <<transactions, tx_seq, cat_seq, parser, receipts, rc_seq, found, fn>>

\* delete_category.  First step: CategoryNotFoundError if the category is
\* absent, ValueError if it has children other than itself or if a
\* transaction of any user has it as category_id or subcategory_id.  Second
\* step: the commit deletes the row; the foreign keys on parent_id,
\* category_id and subcategory_id refuse it (IntegrityError) while a row
\* refers to it.
delete_category(s, category_id) ==
    LET call(pc, result) ==
            [ pc |-> pc, op |-> "delete_category", category_id |-> category_id,
              result |-> result ]
        actual_children == { c \in categories : c.parent_id = category_id /\ c.id # category_id }
        transaction_count ==
            Cardinality({ t \in transactions :
                            t.category_id = category_id \/ t.subcategory_id = category_id })
    IN
    \/ /\ req[s].pc = "idle"
       /\ req' = [req EXCEPT ![s] =
            IF ~\E c \in categories : c.id = category_id
            THEN call("done", "CategoryNotFoundError")
            ELSE IF actual_children # {} THEN call("done", "ValueError")
            ELSE IF transaction_count > 0 THEN call("done", "ValueError")
            ELSE call("delete_commit", "")]
       /\ UNCHANGED <<transactions, categories, tx_seq, cat_seq, parser, receipts, rc_seq, found, fn>>
    \/ /\ req[s].pc = "delete_commit"
       /\ req[s].category_id = category_id
       /\ LET referenced == \/ \E c \in categories : c.parent_id = category_id
                            \/ transaction_count > 0
          IN /\ categories' = IF referenced THEN categories
                              ELSE { c \in categories : c.id # category_id }
             /\ req' = [req EXCEPT ![s] =
                    call("done", IF referenced THEN "IntegrityError" ELSE "deleted")]
       /\ UNCHANGED <<transactions, tx_seq, cat_seq, parser, receipts, rc_seq, found, fn>>

\* The fields of the request are written to the transaction whoever owns it
UpdateAnyOwner(transaction_id, user_id, data) ==
    /\ fn.pc = "idle"
    /\ transactions' = { IF t.id = transaction_id
                         THEN [ f \in DOMAIN t |-> IF f \in DOMAIN data THEN data[f] ELSE t[f] ]
                         ELSE t : t \in transactions }
    /\ fn' = [ pc |-> "returned", op |-> "update_transaction",
               transaction_id |-> transaction_id, user_id |-> user_id, out |-> "Transaction" ]
    /\ UNCHANGED <<categories, tx_seq, cat_seq, req, parser, receipts, rc_seq, found>>

\* TransactionService.update_transaction: None unless the transaction exists
\* and belongs to the user; the fields set in the TransactionUpdate are
\* written, and the foreign keys on category_id and subcategory_id refuse a
\* category that does not exist (IntegrityError)
update_transaction(transaction_id, user_id, data) ==
    LET refused == \E f \in DOMAIN data \cap {"category_id", "subcategory_id"} :
                        /\ data[f] # NULL
                        /\ ~\E c \in categories : c.id = data[f]
        out == IF ~\E t \in transactions : t.id = transaction_id /\ t.user_id = user_id
               THEN "None"
               ELSE IF refused THEN "IntegrityError" ELSE "Transaction"
    IN
    /\ fn.pc = "idle"
    /\ transactions' =
            IF out # "Transaction" THEN transactions
            ELSE { IF t.id = transaction_id
                   THEN [ f \in DOMAIN t |-> IF f \in DOMAIN data THEN data[f] ELSE t[f] ]
                   ELSE t : t \in transactions }
    /\ fn' = [ pc |-> "returned", op |-> "update_transaction",
               transaction_id |-> transaction_id, user_id |-> user_id, out |-> out ]
    /\ UNCHANGED <<categories, tx_seq, cat_seq, req, parser, receipts, rc_seq, found>>

Init ==
    /\ transactions = {}
    /\ categories = {}
    /\ tx_seq = 0
    /\ cat_seq = 0
    /\ req = [s \in Slots |-> Idle]
    /\ parser = NoParse
    /\ receipts = {}
    /\ rc_seq = 0
    /\ found = NoMatchCall
    /\ fn = NoCall

Next ==
    \/ \E s \in Slots, r \in ImportRequests : ImportStart(s, r[1], r[2], r[3])
    \/ \E s \in Slots : ImportCommit(s)
    \/ \E s \in Slots : RequestEnd(s)
    \/ \E u \in Users, d \in ManualEntries : create_transaction(u, d)
    \/ \E n \in 1..MaxTxId, u \in Users : delete_transaction(TxId(n), u)
    \/ \E n \in CategoryNames : create_category(n, NULL)

Spec == Init /\ [][Next]_vars

NextParse ==
    \/ \E f \in ParseFiles : ParseOpen(f)
    \/ ParseNextRow
    \/ ParseReturn
    \/ ParseEnd

SpecParse == Init /\ [][NextParse]_vars

\* The store is empty and one call of a pure function is about to be made
InitPure ==
    /\ transactions = {}
    /\ categories = {}
    /\ tx_seq = 0
    /\ cat_seq = 0
    /\ req = [s \in Slots |-> Idle]
    /\ parser = NoParse
    /\ receipts = {}
    /\ rc_seq = 0
    /\ found = NoMatchCall
    /\ fn \in PureCalls

NextPure ==
    \/ ApplyParseDate
    \/ ApplyImportHash

SpecPure == InitPure /\ [][NextPure]_vars

\* The matcher's runs: transactions and receipts are stored while no call is
\* open, then a call is made and its outcome is taken
NextMatch ==
    \/ \E u \in Users, d \in MatchEntries :
            found.pc = "idle" /\ tx_seq < MaxMatchTx /\ create_transaction(u, d)
    \/ \E u \in Users, e \in ReceiptData :
            found.pc = "idle" /\ rc_seq < MaxMatchRc /\ ReceiptStored(u, e)
    \/ \E r \in receipts, u \in Users, k \in {0, 1, DefaultMaxResults} :
            find_matching_transactions(r, u, k)
    \/ MatchEnd

SpecMatch == Init /\ [][NextMatch]_vars

\* The runs of receipt linking: transactions come and go, receipts are stored
\* (the receipt of tests/test_receipt_matching.py), matched, linked and unlinked
NextLink ==
    \/ \E u \in Users, d \in ManualEntries :
            fn.pc = "idle" /\ found.pc = "idle" /\ create_transaction(u, d)
    \/ \E n \in 1..MaxTxId, u \in Users :
            fn.pc = "idle" /\ found.pc = "idle" /\ delete_transaction(TxId(n), u)
    \/ \E u \in Users :
            /\ fn.pc = "idle" /\ found.pc = "idle"
            /\ ReceiptStored(u, Json("obj",
                    [ date |-> Json("str", <<"2", "0", "2", "4", "-", "0", "1", "-", "1", "5">>),
                      total |-> Json("num", <<"4", "2", ".", "9", "9">>),
                      merchant |-> Json("str", <<"R", "E", "W", "E">>) ]))
    \/ \E n \in 1..MaxRcId, t \in 1..MaxTxId, u \in Users :
            found.pc = "idle" /\ link_receipt_to_transaction(<<"rc", n>>, TxId(t), u)
    \/ \E n \in 1..MaxRcId, u \in Users :
            found.pc = "idle" /\ unlink_receipt_from_transaction(<<"rc", n>>, u)
    \/ \E r \in receipts :
            fn.pc = "idle" /\ find_matching_transactions(r, r.user_id, DefaultMaxResults)
    \/ MatchEnd
    \/ CallEnd

SpecLink == Init /\ [][NextLink]_vars

\* How many transactions the runs of the category tree create at most
MaxCatTx == 1

\* The runs of the category tree: categories are created, moved and deleted
\* by concurrent requests while a transaction is created and categorized; a
\* request names the ids that have been given out
NextCat ==
    \/ \E n \in CategoryNames, p \in {NULL} \cup { CatId(i) : i \in 1..MaxCatId } :
            create_category(n, p)
    \/ \E s \in Slots, i \in 1..cat_seq,
          d \in { [parent_id |-> p] : p \in {NULL} \cup { CatId(j) : j \in 1..cat_seq } }
                \cup { [name_de |-> NULL] } :
            update_category(s, CatId(i), d)
    \/ \E s \in Slots, i \in 1..cat_seq : delete_category(s, CatId(i))
    \/ \E s \in Slots : RequestEnd(s)
    \/ \E d \in ManualEntries :
            tx_seq < MaxCatTx /\ create_transaction("u1", d)
    \/ \E f \in {"category_id", "subcategory_id"}, c \in {NULL} \cup { CatId(j) : j \in 1..cat_seq } :
            update_transaction(TxId(1), "u1", [g \in {f} |-> c])
    \/ CallEnd

SpecCat == Init /\ [][NextCat]_vars

\* The runs of transaction updates: both users create, categorize, annotate
\* and delete transactions, one call at a time
NextTx ==
    \/ \E n \in CategoryNames : fn.pc = "idle" /\ create_category(n, NULL)
    \/ \E u \in Users, d \in ManualEntries :
            fn.pc = "idle" /\ tx_seq < MaxMatchTx /\ create_transaction(u, d)
    \/ \E n \in 1..MaxMatchTx, u \in Users,
          d \in { [category_id |-> c] : c \in {NULL} \cup { CatId(j) : j \in 1..MaxCatId } }
                \cup { [subcategory_id |-> CatId(j)] : j \in 1..MaxCatId }
                \cup { [notes |-> x] : x \in {NULL, <<"o", "k">>} }
                \cup { [category_id |-> CatId(1), notes |-> <<"o", "k">>] } :
            update_transaction(TxId(n), u, d)
    \/ \E n \in 1..MaxMatchTx, u \in Users :
            fn.pc = "idle" /\ delete_transaction(TxId(n), u)
    \/ CallEnd

SpecTx == Init /\ [][NextTx]_vars

\* How many transactions beyond the fetch limit the user of the large runs has
MaxOver == 1

\* The store after FetchLimit + MaxOver create_transaction calls of user u1:
\* purchases of 10.00 on 2024-01-15, all at "Store" but the last one at
\* "REWE", until the fetch limit is reached, then purchases of 42.99 at
\* "REWE Supermarket" on the same day
InitLimit ==
    /\ transactions =
            { [ id |-> TxId(n),
                user_id |-> "u1",
                date |-> <<2024, 1, 15>>,
                amount |-> IF n <= FetchLimit THEN <<1, 1000, -2>> ELSE <<1, 4299, -2>>,
                counterparty |-> IF n < FetchLimit THEN <<"S", "t", "o", "r", "e">>
                                 ELSE IF n = FetchLimit THEN <<"R", "E", "W", "E">>
                                 ELSE <<"R", "E", "W", "E", " ", "S", "u", "p", "e", "r", "m", "a", "r", "k", "e", "t">>,
                description |-> NULL,
                category_id |-> NULL,
                subcategory_id |-> NULL,
                fg_main_category |-> NULL,
                notes |-> NULL,
                source |-> "manual",
                import_hash |-> NULL ] : n \in 1..(FetchLimit + MaxOver) }
    /\ categories = {}
    /\ tx_seq = FetchLimit + MaxOver
    /\ cat_seq = 0
    /\ req = [s \in Slots |-> Idle]
    /\ parser = NoParse
    /\ receipts = {}
    /\ rc_seq = 0
    /\ found = NoMatchCall
    /\ fn = NoCall

\* The large runs: a receipt with a total and a merchant but no date is
\* stored and matched against more transactions than one fetch returns
NextLimit ==
    \/ /\ found.pc = "idle" /\ rc_seq < MaxMatchRc
       /\ ReceiptStored("u1", Json("obj",
                [ total |-> Json("num", <<"4", "2", ".", "9", "9">>),
                  merchant |-> Json("str", <<"R", "E", "W", "E">>) ]))
    \/ \E r \in receipts, k \in {1, DefaultMaxResults} :
            find_matching_transactions(r, "u1", k)
    \/ MatchEnd

SpecLimit == InitLimit /\ [][NextLimit]_vars

(***************************************************************************)
(* Properties of the import orchestrator and the parser                     *)
(***************************************************************************)

\* The upload passes the file-level checks: a filename with an accepted
\* extension and a header with every required column
PassesFileChecks(file) ==
    /\ file.filename # <<>>
    /\ Lower(SplitExt(file.filename)) \in {XLSX, CSV}
    /\ REQUIRED_COLUMNS \subseteq file.columns

\* The hashes of the parsed rows of the call in slot s
BatchHashes(s) ==
    { req[s].parsed_transactions[i].import_hash : i \in 1..Len(req[s].parsed_transactions) }

\* The rows the session of slot s holds whose (user, hash) is already persisted
Clashing(s) ==
    { i \in 1..Len(req[s].pending) :
        \E t \in transactions : /\ t.user_id = req[s].user_id
                                /\ t.import_hash = req[s].pending[i].import_hash }

\* The rows the session of slot s holds that the storage constraint rejects:
\* their (user, hash) is persisted or is that of an earlier row of the session
Rejected(s) ==
    Clashing(s) \cup
    { i \in 1..Len(req[s].pending) :
        \E j \in 1..(i - 1) : req[s].pending[j].import_hash = req[s].pending[i].import_hash }

\* C1: in every reachable state no two persisted transactions have the same
\* user and the same non-null import_hash; null hashes are exempt.
C1_UniqueUserHash ==
    \A t1, t2 \in transactions :
        (t1.user_id = t2.user_id /\ t1.import_hash # NULL /\ t1.import_hash = t2.import_hash)
            => t1.id = t2.id

\* An import was refused a second copy of a hash its user has persisted, beside
\* a manual transaction of that user with a null hash
C1_Witness ==
    \E s \in Slots :
        /\ req[s].pc = "done" /\ req[s].error = "IntegrityError"
        /\ \E t \in transactions : /\ t.user_id = req[s].user_id
                                   /\ \E i \in 1..Len(req[s].pending) :
                                        req[s].pending[i].import_hash = t.import_hash
        /\ \E t \in transactions : t.user_id = req[s].user_id /\ t.import_hash = NULL

\* C2: once an import with skip_duplicates=true has completed, importing the same
\* file again for the same user with skip_duplicates=true returns imported = 0
\* and skipped = total_rows and persists nothing.
C2_ReimportSkipsAll ==
    \A s \in Slots :
        (req[s].pc = "done" /\ req[s].again) =>
            /\ req[s].result = "returned"
            /\ req[s].stats.imported = 0
            /\ req[s].stats.skipped = req[s].stats.total_rows
            /\ req[s].persisted = 0

\* C3: the commit of a batch with skip_duplicates=true, none of whose rows
\* another call has persisted meanwhile, persists exactly one transaction for
\* every hash of the parsed rows that was not persisted for the user, and every
\* other parsed row is counted as skipped.
C3_FirstOccurrencePersisted ==
    [][\A s \in Slots :
        (/\ req[s].pc = "commit" /\ req[s].skip_duplicates /\ req'[s].pc = "done"
         /\ Clashing(s) = {}) =>
            /\ \A h \in BatchHashes(s) \ req[s].db_hashes :
                    Cardinality({ t \in transactions' \ transactions :
                                    t.user_id = req[s].user_id /\ t.import_hash = h }) = 1
            /\ req'[s].stats.skipped = Len(req[s].parsed_transactions)
                                       - Cardinality(BatchHashes(s) \ req[s].db_hashes)]_vars

\* C4: every returned statistics object has total_rows = number of parsed rows
\* = imported + skipped + errors.
C4_StatsAddUp ==
    \A s \in Slots :
        (req[s].pc = "done" /\ req[s].result = "returned") =>
            /\ req[s].stats.total_rows = Len(req[s].parsed_transactions)
            /\ req[s].stats.total_rows =
                    req[s].stats.imported + req[s].stats.skipped + req[s].stats.errors

\* Two returned calls that between them imported, skipped and failed rows
C4_Witness ==
    \E s \in Slots, o \in Slots :
        /\ s # o
        /\ req[s].pc = "done" /\ req[s].result = "returned"
        /\ req[s].stats.imported > 0 /\ req[s].stats.skipped > 0
        /\ req[o].pc = "done" /\ req[o].result = "returned"
        /\ req[o].stats.errors > 0 /\ req[o].stats.skipped > 0

\* C5: when a call with skip_duplicates=true reaches its commit after another
\* call for the same user and file has persisted rows it holds, it returns its
\* statistics with those rows counted as skipped, not as errors.
C5_RaceCountsSkipped ==
    [][\A s \in Slots :
        (/\ req[s].pc = "commit" /\ req[s].skip_duplicates /\ req'[s].pc = "done"
         /\ Clashing(s) # {}
         /\ \E o \in Slots \ {s} : /\ req[o].pc = "done" /\ req[o].result = "returned"
                                   /\ req[o].user_id = req[s].user_id
                                   /\ req[o].file = req[s].file) =>
            /\ req'[s].result = "returned"
            /\ req'[s].stats.skipped = req[s].stats.skipped + Cardinality(Clashing(s))
            /\ req'[s].stats.errors = req[s].stats.errors]_vars

\* C6: every call whose file passes the file-level checks ends by returning its
\* statistics.
C6_AlwaysReturnsStats ==
    \A s \in Slots :
        (req[s].pc = "done" /\ PassesFileChecks(req[s].file)) => req[s].result = "returned"

\* C7: a call that raises has persisted none of its rows, and a call that
\* returns has persisted as many transactions as its imported count.
C7_AllOrNothing ==
    \A s \in Slots :
        req[s].pc = "done" =>
            /\ req[s].result = "raised" => req[s].persisted = 0
            /\ req[s].result = "returned" => req[s].persisted = req[s].stats.imported

\* One call returned having persisted rows; another raised at its commit after
\* its first row, whose hash is in no persisted transaction, had been flushed
C7_Witness ==
    \E s \in Slots, o \in Slots :
        /\ req[s].pc = "done" /\ req[s].result = "returned" /\ req[s].persisted > 0
        /\ req[o].pc = "done" /\ req[o].error = "IntegrityError"
        /\ Len(req[o].pending) > 1
        /\ \A t \in transactions : t.import_hash # req[o].pending[1].import_hash

\* C8: when the storage rejects rows at the commit, the call returns, each
\* rejected row is counted in errors with a message in error_details, and every
\* other row of the session is persisted.
C8_RejectedRowIsError ==
    [][\A s \in Slots :
        (req[s].pc = "commit" /\ req'[s].pc = "done" /\ Rejected(s) # {}) =>
            /\ req'[s].result = "returned"
            /\ req'[s].stats.errors = req[s].stats.errors + Cardinality(Rejected(s))
            /\ Len(req'[s].stats.error_details) = req'[s].stats.errors
            /\ req'[s].persisted = Len(req[s].pending) - Cardinality(Rejected(s))]_vars

C10_HeaderOnlyImportsNothing ==
    \A s \in Slots :
        (/\ req[s].pc = "done"
         /\ req[s].file.rows = <<>>
         /\ req[s].file.filename # <<>>
         /\ Lower(SplitExt(req[s].file.filename)) \in {XLSX, CSV}) =>
            /\ req[s].result = "returned"
            /\ req[s].parsed_transactions = <<>>
            /\ req[s].stats.imported = 0

\* The rows among the first n of the frame whose date and amount cells both parse
GoodRows(rows, n) ==
    { i \in 1..n : /\ parse_german_date(Cell(rows[i], "Buchungstag")).ok
                   /\ parse_german_amount(Cell(rows[i], "Betrag")).ok }

\* The position in the output of source row i, one of the rows of good
RankIn(good, i) == Cardinality({ j \in good : j <= i })

\* C11: on a file with every required column the parser never aborts, and after
\* any number of rows its output holds exactly one row for each source row
\* handled so far whose date and amount parse, in source order, with that
\* source row's own values.
C11_RowIsolationAndOrder ==
    /\ parser.pc = "raised" => OpenFrame(parser.file).raised # NoError
    /\ parser.pc \in {"rows", "returned"} =>
        /\ Len(parser.transactions) = Cardinality(GoodRows(parser.file.rows, parser.idx))
        /\ \A i \in GoodRows(parser.file.rows, parser.idx) :
            /\ parser.transactions[RankIn(GoodRows(parser.file.rows, parser.idx), i)].date
                    = parse_german_date(parser.file.rows[i]["Buchungstag"]).date
            /\ parser.transactions[RankIn(GoodRows(parser.file.rows, parser.idx), i)].amount
                    = parse_german_amount(parser.file.rows[i]["Betrag"]).amount
            /\ parser.transactions[RankIn(GoodRows(parser.file.rows, parser.idx), i)].counterparty
                    \in {<<>>, Strip(parser.file.rows[i]["Beguenstigter/Auftraggeber"])}

\* The parser returned two different rows of a three-row file in source order,
\* having dropped the row between them
C11_Witness ==
    /\ parser.pc = "returned"
    /\ Len(parser.file.rows) = 3
    /\ GoodRows(parser.file.rows, 3) = {1, 3}
    /\ Len(parser.transactions) = 2
    /\ parser.transactions[1].amount # parser.transactions[2].amount

\* C12: in every parsed row an empty or blank counterparty or description cell
\* gives the empty string, never the text nan, and the import hash is the one
\* computed from those strings.
C12_BlankCellsAreEmpty ==
    parser.pc \in {"rows", "returned"} =>
        \A i \in GoodRows(parser.file.rows, parser.idx) :
            LET t == parser.transactions[RankIn(GoodRows(parser.file.rows, parser.idx), i)]
                blank(c) == \/ IsNa(parser.file.rows[i][c])
                            \/ \A k \in 1..Len(parser.file.rows[i][c]) : IsSpace(parser.file.rows[i][c][k])
            IN  /\ blank("Beguenstigter/Auftraggeber") => t.counterparty = <<>>
                /\ blank("Verwendungszweck") => t.description = <<>>
                /\ t.counterparty # <<"n", "a", "n">> /\ t.description # <<"n", "a", "n">>
                /\ t.import_hash = DateStr(t.date) \o <<"|">> \o DecimalStr(t.amount) \o <<"|">>
                                   \o t.counterparty \o <<"|">> \o t.description

\* The parser returned a row whose counterparty cell was empty and whose
\* description cell was blank, with a hash ending in the two empty fields
C12_Witness ==
    /\ parser.pc = "returned"
    /\ \E i \in GoodRows(parser.file.rows, Len(parser.file.rows)) :
        /\ IsNa(parser.file.rows[i]["Beguenstigter/Auftraggeber"])
        /\ parser.file.rows[i]["Verwendungszweck"] = <<" ", " ">>
        /\ LET t == parser.transactions[RankIn(GoodRows(parser.file.rows, Len(parser.file.rows)), i)]
           IN  /\ t.counterparty = <<>> /\ t.description = <<>>
               /\ SubSeq(t.import_hash, Len(t.import_hash) - 1, Len(t.import_hash)) = <<"|", "|">>

\* C13: two rows with the same date, counterparty and description whose
\* amounts are the same number get the same import hash, however the amounts
\* are written.
C13_EqualAmountsHashEqual ==
    (/\ fn.pc = "returned" /\ fn.op = "generate_import_hash"
     /\ DecEqual(fn.amounts[1], fn.amounts[2])) => fn.out[1] = fn.out[2]

\* A text of the exact form DD.MM.YYYY that names a calendar date
IsGermanDate(s) ==
    /\ ~IsNa(s)
    /\ Len(s) = 10
    /\ s[3] = "." /\ s[6] = "."
    /\ \A i \in {1, 2, 4, 5, 7, 8, 9, 10} : IsDigit(s[i])
    /\ ValidDate(DigitsVal(SubSeq(s, 7, 10)), DigitsVal(SubSeq(s, 4, 5)), DigitsVal(SubSeq(s, 1, 2)))

\* C14: parse_german_date returns a date exactly for the texts of the form
\* DD.MM.YYYY that name a calendar date, and then that date; every other input
\* fails.
C14_OnlyExactGermanDates ==
    (fn.pc = "returned" /\ fn.op = "parse_german_date") =>
        /\ fn.out.ok <=> IsGermanDate(fn.date_str)
        /\ fn.out.ok => fn.out.date = << DigitsVal(SubSeq(fn.date_str, 7, 10)),
                                         DigitsVal(SubSeq(fn.date_str, 4, 5)),
                                         DigitsVal(SubSeq(fn.date_str, 1, 2)) >>

(***************************************************************************)
(* Properties of the receipt matcher                                        *)
(***************************************************************************)

\* A find_matching_transactions call has returned its list
Returned == found.pc = "done" /\ found.raised = NoError

\* The receipt has a date and strptime reads it
DateParses ==
    /\ ReceiptDate(found.receipt.extracted_data) # NULL
    /\ StrpTime(ReceiptDate(found.receipt.extracted_data)).ok

\* How many days txn is away from the receipt's date
DaysOff(txn) ==
    Abs(ToOrdinal(txn.date) - ToOrdinal(StrpTime(ReceiptDate(found.receipt.extracted_data)).date))

\* The receipt has a total and it is a number
HasTotal ==
    /\ DataGet(found.receipt.extracted_data, "total").t \in {"str", "num"}
    /\ PyDecimal(DataGet(found.receipt.extracted_data, "total").v).ok

\* The absolute amounts of the receipt and of txn differ by at most so many cents
AmountWithin(txn, cents) ==
    LET total == PyDecimal(DataGet(found.receipt.extracted_data, "total").v).value
        e == MinExp(MinExp(total[3], txn.amount[3]), -2)
    IN  Abs(DecScaled(total, e) - DecScaled(txn.amount, e)) <= cents * Pow10(-2 - e)

\* The score the call gave to a row of its pool
ScoreOf(txn) ==
    DateScore(ReceiptDate(found.receipt.extracted_data), txn)
        + AmountScore(DataGet(found.receipt.extracted_data, "total"), txn)
        + MerchantScore(MerchantOf(found.receipt.extracted_data).value, txn)

\* C15: for every receipt, user and max_results >= 0, a call that returns
\* gives at most max_results candidates, and each candidate's confidence is
\* greater than or equal to the next one's.
C15_BoundedAndSorted ==
    Returned =>
        /\ Len(found.matches) <= found.max_results
        /\ \A i \in 1..(Len(found.matches) - 1) :
                found.matches[i].confidence >= found.matches[i + 1].confidence

\* Two rows of the pool qualify, the second scores higher, max_results is 1:
\* the list is the second row alone
C15_Witness ==
    /\ Returned
    /\ found.max_results = 1
    /\ Len(found.pool) = 2
    /\ ScoreOf(found.pool[1]) >= 10
    /\ ScoreOf(found.pool[2]) > ScoreOf(found.pool[1])
    /\ Len(found.matches) = 1
    /\ found.matches[1].txn = found.pool[2]

\* C16: every candidate returned has a confidence between 10 and 100, the sum
\* of its date (0/20/30/40), amount (0/15/25/35/40) and merchant (0/10/20)
\* parts; a row of the pool that scores below 10 is never returned.
C16_ScoreRangeAndFloor ==
    Returned =>
        /\ \A i \in 1..Len(found.matches) :
                /\ found.matches[i].confidence >= 10
                /\ found.matches[i].confidence <= 100
                /\ found.matches[i].confidence =
                        found.matches[i].date_score + found.matches[i].amount_score
                            + found.matches[i].merchant_score
                /\ found.matches[i].date_score \in {0, 20, 30, 40}
                /\ found.matches[i].amount_score \in {0, 15, 25, 35, 40}
                /\ found.matches[i].merchant_score \in {0, 10, 20}
                /\ found.matches[i].confidence = ScoreOf(found.matches[i].txn)
        /\ \A j \in 1..Len(found.pool) :
                ScoreOf(found.pool[j]) < 10 =>
                    \A i \in 1..Len(found.matches) : found.matches[i].txn # found.pool[j]

\* Of two rows fetched one scores exactly 10 and is returned, the other scores
\* below 10 and is dropped although max_results leaves room for it
C16_Witness ==
    /\ Returned
    /\ found.max_results = DefaultMaxResults
    /\ Len(found.pool) = 2
    /\ Len(found.matches) = 1
    /\ found.matches[1].confidence = 10
    /\ \E j \in 1..2 : ScoreOf(found.pool[j]) < 10

\* C17: a receipt with a date and a total (zero included) and a transaction
\* of the same user on the receipt's date whose absolute amount equals the
\* absolute total: the transaction is scored at least 80.
C17_ExactMatchScores80 ==
    Returned /\ DateParses /\ HasTotal =>
        \A j \in 1..Len(found.pool) :
            DaysOff(found.pool[j]) = 0 /\ AmountWithin(found.pool[j], 0) =>
                ScoreOf(found.pool[j]) >= 80

\* C18: a transaction 3 days away from the receipt's date whose absolute
\* amount equals the total is returned with a confidence of at least 50 and
\* below 80, whatever its counterparty.
C18_ThreeDaysOffBelow80 ==
    Returned /\ DateParses /\ HasTotal /\ found.max_results = DefaultMaxResults =>
        \A j \in 1..Len(found.pool) :
            DaysOff(found.pool[j]) = 3 /\ AmountWithin(found.pool[j], 0) =>
                \E i \in 1..Len(found.matches) :
                    /\ found.matches[i].txn = found.pool[j]
                    /\ found.matches[i].confidence >= 50
                    /\ found.matches[i].confidence < 80

\* C19: a transaction whose absolute amount differs from the receipt total by
\* more than 5.00 is never returned with a confidence of 40 or more, even when
\* its date and counterparty match the receipt.
C19_FarAmountBelow40 ==
    Returned /\ HasTotal =>
        \A i \in 1..Len(found.matches) :
            ~AmountWithin(found.matches[i].txn, 500) => found.matches[i].confidence < 40

\* C20: when the receipt's date is a parseable ISO date D, every candidate
\* returned is dated within [D-7, D+7] and the user's transactions dated D-7
\* or D+7 are in the pool; when the date is absent or unparseable, none of the
\* user's transactions is kept out of the pool and the date part of every
\* score is 0.
C20_DatePreFilter ==
    Returned =>
        IF DateParses
        THEN /\ \A i \in 1..Len(found.matches) : DaysOff(found.matches[i].txn) <= 7
             /\ \A txn \in transactions :
                    txn.user_id = found.user_id /\ DaysOff(txn) = 7 =>
                        \E j \in 1..Len(found.pool) : found.pool[j] = txn
        ELSE /\ \A txn \in transactions :
                    txn.user_id = found.user_id =>
                        \E j \in 1..Len(found.pool) : found.pool[j] = txn
             /\ \A i \in 1..Len(found.matches) : found.matches[i].date_score = 0

\* The user has a transaction seven days from the receipt's date and one
\* eight days from it: the first is fetched and returned, the second is not
C20_Witness ==
    /\ Returned
    /\ DateParses
    /\ Len(found.pool) = 1
    /\ DaysOff(found.pool[1]) = 7
    /\ Len(found.matches) = 1
    /\ found.matches[1].txn = found.pool[1]
    /\ \E txn \in transactions : txn.user_id = found.user_id /\ DaysOff(txn) = 8

(***************************************************************************)
(* Properties of receipt linking                                            *)
(***************************************************************************)

\* This step is a whole find_matching_transactions call
MatchStep == found.pc = "idle" /\ found'.pc = "done"

\* This step is a whole link_receipt_to_transaction or
\* unlink_receipt_from_transaction call
LinkStep == fn.pc = "idle" /\ fn'.pc = "returned"

\* This step changes the link of a receipt
LinkChanged ==
    \E r \in receipts, r2 \in receipts' : r.id = r2.id /\ r.transaction_id # r2.transaction_id

\* This step deletes the transaction of every link it changes, and clears the link
LinkCleared ==
    \A r \in receipts, r2 \in receipts' :
        r.id = r2.id /\ r.transaction_id # r2.transaction_id =>
            /\ r2.transaction_id = NULL
            /\ \A t \in transactions' : t.id # r.transaction_id

\* C21 as stated: find_matching_transactions leaves every receipt and every
\* transaction unchanged, and a receipt's link changes only through
\* link_receipt_to_transaction or unlink_receipt_from_transaction.
C21_OnlyLinkCallsChangeLinks ==
    [][ /\ MatchStep => receipts' = receipts /\ transactions' = transactions
        /\ LinkChanged => LinkStep ]_vars

\* C21, amended: find_matching_transactions leaves every receipt and every
\* transaction unchanged; a receipt's link changes only through
\* link_receipt_to_transaction, unlink_receipt_from_transaction, or the
\* deletion of the linked transaction, which clears it.
C21_MatchingReadOnly ==
    [][ /\ MatchStep => receipts' = receipts /\ transactions' = transactions
        /\ LinkChanged => LinkStep \/ LinkCleared ]_vars

\* A call has returned a candidate of the receipt's owner, and the receipt
\* is as unlinked as before
C21_Witness ==
    /\ found.pc = "done"
    /\ found.raised = NoError
    /\ Len(found.matches) >= 1
    /\ found.matches[1].confidence >= 50
    /\ found.receipt \in receipts
    /\ found.receipt.transaction_id = NULL

\* C22: link_receipt_to_transaction sets the receipt's transaction_id only
\* when the receipt and the transaction exist and belong to the calling user;
\* otherwise it returns None (not found) and every receipt, the addressed
\* one with its existing link included, is unchanged.  A successful call
\* changes no other receipt.
C22_LinkNeedsBothOwned ==
    [][ LinkStep /\ fn'.op = "link_receipt_to_transaction" =>
            IF /\ \E r \in receipts : r.id = fn'.receipt_id /\ r.user_id = fn'.user_id
               /\ \E t \in transactions : t.id = fn'.transaction_id /\ t.user_id = fn'.user_id
            THEN /\ fn'.out = "Receipt"
                 /\ \A r \in receipts :
                        \E r2 \in receipts' :
                            /\ r2.id = r.id
                            /\ r2.transaction_id = IF r.id = fn'.receipt_id
                                                   THEN fn'.transaction_id
                                                   ELSE r.transaction_id
            ELSE /\ fn'.out = "None"
                 /\ receipts' = receipts ]_vars

\* The user's receipt is linked already and the call names a transaction of
\* another user: None is returned and the link stands
C22_Witness ==
    /\ fn.pc = "returned"
    /\ fn.op = "link_receipt_to_transaction"
    /\ fn.out = "None"
    /\ \E r \in receipts :
            /\ r.id = fn.receipt_id /\ r.user_id = fn.user_id
            /\ r.transaction_id # NULL /\ r.transaction_id # fn.transaction_id
    /\ \E t \in transactions : t.id = fn.transaction_id /\ t.user_id # fn.user_id

\* C28: in every reachable state each receipt's transaction_id is null or
\* the id of an existing transaction owned by the receipt's own user.
C28_LinksPointToOwnTransactions ==
    \A r \in receipts :
        \/ r.transaction_id = NULL
        \/ \E t \in transactions : t.id = r.transaction_id /\ t.user_id = r.user_id

\* A receipt is linked while another receipt of the same user has no link
\* and a transaction has been deleted
C28_Witness ==
    /\ Cardinality(transactions) < tx_seq
    /\ \E r, q \in receipts :
            /\ r.user_id = q.user_id
            /\ r.transaction_id # NULL
            /\ q.transaction_id = NULL

\* C23: find_matching_transactions completes without raising whatever of
\* merchant, date and total is missing, null or present (a total that is no
\* decimal included), and a missing or null field makes its part of every
\* score 0.
C23_NeverRaises ==
    found.pc = "done" =>
        /\ found.raised = NoError
        /\ \A i \in 1..Len(found.matches) :
                /\ ~DateParses => found.matches[i].date_score = 0
                /\ DataGet(found.receipt.extracted_data, "total").t = "null" =>
                        found.matches[i].amount_score = 0
                /\ DataGet(found.receipt.extracted_data, "merchant").t = "null" =>
                        found.matches[i].merchant_score = 0

(***************************************************************************)
(* Properties of category resolution, the category tree and transactions    *)
(***************************************************************************)

\* C24: category resolution during import never produces an error, whatever
\* the category table holds (several top-level categories of one name_de
\* included); category_id is only ever a top-level category whose name_de is
\* the row's category, subcategory_id only a child of it.
C24_CategoryResolutionNeverFails ==
    \A s \in Slots :
        req[s].pc \in {"commit", "done"} =>
            /\ \A i \in 1..Len(req[s].stats.error_details) :
                    req[s].stats.error_details[i] # "MultipleResultsFound"
            /\ \A j \in 1..Len(req[s].pending) :
                    /\ req[s].pending[j].category_id # NULL =>
                            \E c \in categories :
                                /\ c.id = req[s].pending[j].category_id
                                /\ c.parent_id = NULL
                                /\ c.name_de = req[s].pending[j].fg_main_category
                    /\ req[s].pending[j].subcategory_id # NULL =>
                            \E c \in categories :
                                /\ c.id = req[s].pending[j].subcategory_id
                                /\ c.parent_id = req[s].pending[j].category_id

\* The ancestors of a category: its parent, the parent's parent, ...
Ancestors(c) ==
    LET up(ids) == { x.parent_id : x \in { y \in categories : y.id \in ids } } \ {NULL}
        RECURSIVE climb(_, _)
        climb(ids, n) == IF n = 0 THEN ids ELSE climb(ids \cup up(ids), n - 1)
    IN climb(up({c.id}), Cardinality(categories))

\* C25: the category parent relation is acyclic in every reachable state: no
\* category is its own ancestor, and an update_category whose new parent is
\* the category itself or one of its descendants is rejected and leaves the
\* tree unchanged.
C25_TreeAcyclic ==
    \A c \in categories : c.id \notin Ancestors(c)

\* Nothing refers to a category that is not in the table
NoDanglingCategory ==
    /\ \A c \in categories :
            c.parent_id # NULL => \E p \in categories : p.id = c.parent_id
    /\ \A t \in transactions :
            /\ t.category_id # NULL => \E c \in categories : c.id = t.category_id
            /\ t.subcategory_id # NULL => \E c \in categories : c.id = t.subcategory_id

\* The category with this id is referred to by another category or a transaction
InUse(category_id) ==
    \/ \E c \in categories : c.parent_id = category_id /\ c.id # category_id
    \/ \E t \in transactions : t.category_id = category_id \/ t.subcategory_id = category_id

\* C26: a category leaves the table only in a delete_category call for it,
\* and only when no other category has it as parent and no transaction has it
\* as category_id or subcategory_id; a delete_category call for a category in
\* use fails and changes neither categories nor transactions; so no
\* transaction or category ever refers to a deleted category.
C26_DeleteOnlyUnused ==
    /\ []NoDanglingCategory
    /\ [][ /\ \A c \in categories :
                (~\E d \in categories' : d.id = c.id) =>
                    /\ ~InUse(c.id)
                    /\ \E s \in Slots :
                            /\ req[s].pc = "delete_commit"
                            /\ req[s].category_id = c.id
                            /\ req'[s].result = "deleted"
            /\ \A s \in Slots :
                (/\ req'[s] # req[s]
                 /\ req'[s].pc \in {"done", "delete_commit"}
                 /\ req'[s].op = "delete_category"
                 /\ InUse(req'[s].category_id)) =>
                    /\ req'[s].pc = "done"
                    /\ req'[s].result \in {"ValueError", "IntegrityError"}
                    /\ categories' = categories
                    /\ transactions' = transactions ]_vars

\* A category was deleted by the commit of a delete_category call, and a call
\* for the category of a transaction failed
C26_Witness ==
    /\ \E s \in Slots :
            /\ req[s].pc = "done"
            /\ req[s].op = "delete_category"
            /\ req[s].result = "deleted"
            /\ ~\E c \in categories : c.id = req[s].category_id
    /\ \E s \in Slots :
            /\ req[s].pc = "done"
            /\ req[s].op = "delete_category"
            /\ req[s].result = "ValueError"
            /\ \E t \in transactions : t.category_id = req[s].category_id

\* C27: update_transaction changes at most category_id, subcategory_id,
\* tax_category_id, tags and notes of the addressed transaction; every other
\* field of it and every other transaction is unchanged, no transaction comes
\* or goes, and when the transaction does not exist or belongs to another
\* user nothing changes at all.
C27_UpdateFrame ==
    [][ (fn.pc = "idle" /\ fn'.pc = "returned" /\ fn'.op = "update_transaction") =>
            /\ { t.id : t \in transactions' } = { t.id : t \in transactions }
            /\ \A t \in transactions : \A t2 \in transactions' :
                    t2.id = t.id =>
                        /\ t.id # fn'.transaction_id => t2 = t
                        /\ \A f \in DOMAIN t \ {"category_id", "subcategory_id",
                                               "tax_category_id", "tags", "notes"} :
                                t2[f] = t[f]
            /\ (~\E t \in transactions :
                        t.id = fn'.transaction_id /\ t.user_id = fn'.user_id) =>
                    /\ transactions' = transactions
                    /\ fn'.out = "None"
            /\ UNCHANGED <<categories, receipts, tx_seq, cat_seq>> ]_vars

\* An update has set the category of one of two transactions, the other one
\* belonging to the other user
C27_Witness ==
    /\ fn.pc = "returned"
    /\ fn.op = "update_transaction"
    /\ fn.out = "Transaction"
    /\ \E t \in transactions :
            /\ t.id = fn.transaction_id
            /\ t.category_id # NULL
            /\ \E o \in transactions : o.id # t.id /\ o.user_id # t.user_id

(***************************************************************************)
(* Properties of the matcher on a large table                               *)
(***************************************************************************)

\* C29: find_matching_transactions returns the max_results highest-scoring
\* transactions among all of the user's transactions that pass the date
\* pre-filter and score at least 10: none of them that is left out scores
\* strictly higher than one that is returned, however many transactions the
\* user has.
C29_BestOfAllReturned ==
    Returned =>
        \A txn \in Candidates(transactions, found.user_id,
                              Window(ReceiptDate(found.receipt.extracted_data))) :
            (/\ ScoreOf(txn) >= 10
             /\ \A i \in 1..Len(found.matches) : found.matches[i].txn # txn) =>
                \A i \in 1..Len(found.matches) : ScoreOf(txn) <= found.matches[i].confidence

(***************************************************************************)
(* Properties of the import across users                                    *)
(***************************************************************************)

\* C30: duplicate detection is scoped to the importing user.  The hashes an
\* import's query finds are hashes persisted for its own user; the commit of
\* an import creates, changes and removes no transaction of another user; and
\* an import with skip_duplicates of a duplicate-free file none of whose
\* hashes is persisted for its user, while another user has persisted them,
\* skips nothing and imports every row.
C30_ScopedToUser ==
    [][\A s \in Slots :
        /\ (req[s].pc = "idle" /\ req'[s].pc = "commit") =>
                req'[s].db_hashes \subseteq
                    { t.import_hash : t \in { x \in transactions : x.user_id = req'[s].user_id } }
        /\ (req[s].pc = "commit" /\ req'[s].pc = "done") =>
                /\ { t \in transactions : t.user_id # req[s].user_id }
                        = { t \in transactions' : t.user_id # req[s].user_id }
                /\ (/\ req[s].skip_duplicates
                    /\ req[s].db_hashes = {}
                    /\ Clashing(s) = {}
                    /\ Cardinality(BatchHashes(s)) = Len(req[s].parsed_transactions)
                    /\ \E t \in transactions :
                            t.user_id # req[s].user_id /\ t.import_hash \in BatchHashes(s)) =>
                        /\ req'[s].result = "returned"
                        /\ req'[s].stats.skipped = 0
                        /\ req'[s].stats.imported = req'[s].stats.total_rows
                        /\ req'[s].persisted = req'[s].stats.total_rows]_vars

====
